---- MODULE Spec2Model ----
(***************************************************************************)
(* Model of the component handler of the operator                          *)
(* (pkg/controller/utils, componentHandler): the CreateOrUpdateOrDelete    *)
(* reconciliation engine, its process-wide deduplication cache, the        *)
(* mutation pipeline and the merge policy, run against a cluster API       *)
(* server that other actors write to as well.                              *)
(*                                                                         *)
(* One step of the engine is one blocking call to the cluster API          *)
(* together with the local code that follows it up to the next call.       *)
(***************************************************************************)
EXTENDS Integers, Sequences, FiniteSets, TLC

VARIABLES
    cluster,    \* identity -> the object stored by the API server, or Absent
    wseq,       \* identity -> number of writes the server has applied to it
    nsTerm,     \* namespace name -> TRUE when it carries a deletion timestamp
    install,    \* the Installation's TLS cipher suites: "absent", "" or a list
    cache,      \* dCache: identity -> NoEntry or [ok, obj, gen]
    eng,        \* the componentHandler and its position in CreateOrUpdateOrDelete
    calls,      \* number of CreateOrUpdateOrDelete calls started
    env,        \* number of writes by other actors and of failed API calls
    hs,         \* the handlers that run concurrently against the one dCache
    pipe,       \* the object a run of the mutation steps is working on
    mon         \* the monitor controller: its ready flags and its Reconcile

vars == <<cluster, wseq, nsTerm, install, cache, eng, calls, env, hs, pipe, mon>>

\* What the single handler's steps leave alone.
others == <<hs, pipe, mon>>

----------------------------------------------------------------------------
(* Bounds of the model *)

MaxCalls == 2
MaxEnv == 2

----------------------------------------------------------------------------
(* Maps are sets of <<key, value>> pairs with at most one pair per key. *)

Keys(m) == {p[1] : p \in m}

HasKey(m, k) == k \in Keys(m)

ValueOf(m, k) == (CHOOSE p \in m : p[1] = k)[2]

Put(m, k, v) == {p \in m : p[1] # k} \cup {<<k, v>>}

Remove(m, k) == {p \in m : p[1] # k}

\* common.MergeMaps(current, desired): union, desired winning on a key in both.
MergeMaps(current, desired) ==
    {p \in current : ~HasKey(desired, p[1])} \cup desired

\* common.MergeOwnerReferences(desired, current): desired plus the current
\* references whose owner desired does not name.
MergeOwnerReferences(desired, current) ==
    desired \cup {r \in current : \A d \in desired : d.name # r.name}

----------------------------------------------------------------------------
(* Constants of the program *)

TLS_CIPHERS_ENV_VAR_NAME == "TLS_CIPHER_SUITES"

MultipleOwnersLabel == "operator.tigera.io/multiple-owners"

IgnoreAnnotation == "unsupported.operator.tigera.io/ignore"

failureThreshold == 3
livenessProbePeriodSeconds == 60
readinessProbePeriodSeconds == 30
successThreshold == 1
timeoutSeconds == 5

----------------------------------------------------------------------------
(* Objects.  The empty string, resource version 0, UID 0 and creation      *)
(* timestamp 0 stand for the unset values; replicas 0 stands for nil.      *)
(* Volume and mount names are numbers ordered as the names are.            *)
(* tplAnnotsNil tells the nil map of pod-template annotations from an      *)
(* allocated one without entries; of the other maps the entries alone are  *)
(* kept.                                                                   *)

NoProbe == [present |-> FALSE, ft |-> 0, ps |-> 0, st |-> 0, ts |-> 0]

NewContainer(image) ==
    [image |-> image, pullPolicy |-> "", env |-> <<>>, mounts |-> <<>>,
     lp |-> NoProbe, rp |-> NoProbe]

NewObj(kind, ns, name) ==
    [kind |-> kind, ns |-> ns, name |-> name,
     rv |-> 0, uid |-> 0, ct |-> 0, gen |-> 0,
     labels |-> {}, annots |-> {}, owners |-> {}, finalizers |-> {},
     data |-> 0, status |-> 0,
     stype |-> "", clusterIP |-> "", roleRef |-> "",
     replicas |-> 0, hasSelector |-> FALSE, selector |-> {},
     tplLabels |-> {}, tplAnnots |-> {}, tplAnnotsNil |-> TRUE, nodeSel |-> {},
     containers |-> <<>>, volumes |-> <<>>,
     secrets |-> {}, pullSecrets |-> {}, esRef |-> ""]

Absent == [kind |-> "Absent"]

NoEntry == [ok |-> FALSE]

Key(o) == <<o.kind, o.ns, o.name>>

PodKinds ==
    {"PodTemplate", "Deployment", "DaemonSet", "StatefulSet", "CronJob", "Job",
     "Kibana", "Elasticsearch"}

----------------------------------------------------------------------------
(* The mutation pipeline of createOrUpdateObject *)

NoCR == [name |-> "", ns |-> ""]

\* (mutant) no object is left without the owner reference.
skipAddingOwnerReferenceNever(owner, controlled) == FALSE

\* skipAddingOwnerReference: the owner is namespaced and the object is not.
skipAddingOwnerReference(owner, controlled) ==
    owner.ns # "" /\ controlled.ns = ""

checkIfMultipleOwnersLabel(controlled) ==
    HasKey(controlled.labels, MultipleOwnersLabel)

\* controllerutil's validateOwner: a namespaced owner owns only objects of
\* its own namespace.
validOwner(owner, o) ==
    owner.ns = "" \/ (o.ns # "" /\ o.ns = owner.ns)

upsertOwnerRef(o, ref) ==
    [o EXCEPT !.owners = {r \in @ : r.name # ref.name} \cup {ref}]

\* controllerutil.SetOwnerReference: a non-controlling reference.
SetOwnerReference(owner, o) ==
    IF ~validOwner(owner, o)
    THEN [err |-> "Err", obj |-> o]
    ELSE [err |-> "nil",
          obj |-> upsertOwnerRef(o, [name |-> owner.name, controller |-> FALSE])]

\* controllerutil.SetControllerReference: fails when another controller
\* already owns the object.
SetControllerReference(owner, o) ==
    IF ~validOwner(owner, o) \/ (\E r \in o.owners : r.controller /\ r.name # owner.name)
    THEN [err |-> "Err", obj |-> o]
    ELSE [err |-> "nil",
          obj |-> upsertOwnerRef(o, [name |-> owner.name, controller |-> TRUE])]

\* Owner reference step (createOrUpdateObject, the switch on the type).
setOwner(cr, o) ==
    IF o.kind = "UISettings" THEN [err |-> "nil", obj |-> o]
    ELSE IF cr # NoCR /\ ~skipAddingOwnerReference(cr, o)
    THEN IF checkIfMultipleOwnersLabel(o)
         THEN SetOwnerReference(cr, o)
         ELSE SetControllerReference(cr, o)
    ELSE [err |-> "nil", obj |-> o]

ensureOSSchedulingRestrictions(o, osType) ==
    IF osType = "any" THEN o
    ELSE IF o.kind \in {"Alertmanager", "Prometheus"} \cup PodKinds
    THEN [o EXCEPT !.nodeSel = Put(@, "kubernetes.io/os", osType)]
    ELSE o

setImagePullPolicy(o) ==
    IF o.kind \notin PodKinds THEN o
    ELSE [o EXCEPT !.containers =
            [i \in DOMAIN @ |->
                IF @[i].pullPolicy = ""
                THEN [@[i] EXCEPT !.pullPolicy = "IfNotPresent"]
                ELSE @[i]]]

SortByName(s) == SortSeq(s, LAMBDA a, b : a < b)

orderVolumes(o) ==
    IF o.kind \notin PodKinds THEN o
    ELSE [o EXCEPT !.volumes = SortByName(@)]

orderVolumeMounts(o) ==
    IF o.kind \notin PodKinds THEN o
    ELSE [o EXCEPT !.containers =
            [i \in DOMAIN @ |-> [@[i] EXCEPT !.mounts = SortByName(@)]]]

defaultProbe(p, period) ==
    IF ~p.present THEN p
    ELSE [present |-> TRUE,
          ft |-> IF p.ft = 0 THEN failureThreshold ELSE p.ft,
          ps |-> IF p.ps = 0 THEN period ELSE p.ps,
          st |-> IF p.st = 0 THEN successThreshold ELSE p.st,
          ts |-> IF p.ts = 0 THEN timeoutSeconds ELSE p.ts]

setProbeTimeouts(o) ==
    IF o.kind \notin {"Deployment", "DaemonSet", "Elasticsearch", "Kibana", "Prometheus"}
    THEN o
    ELSE [o EXCEPT !.containers =
            [i \in DOMAIN @ |->
                [@[i] EXCEPT !.lp = defaultProbe(@, livenessProbePeriodSeconds),
                             !.rp = defaultProbe(@, readinessProbePeriodSeconds)]]]

defaultTemplateLabel(m, k, name) ==
    IF ~HasKey(m, k) \/ ValueOf(m, k) = "" THEN Put(m, k, name) ELSE m

setStandardSelectorAndLabels(o) ==
    IF o.kind \notin {"Deployment", "DaemonSet"} THEN o
    ELSE LET a == IF o.kind = "Deployment"
                  THEN [o EXCEPT !.labels =
                          Put(Put(@, "k8s-app", o.name), "app.kubernetes.io/name", o.name)]
                  ELSE o
             b == IF ~a.hasSelector
                  THEN [a EXCEPT !.hasSelector = TRUE,
                                 !.selector = {<<"k8s-app", o.name>>}]
                  ELSE a
         IN [b EXCEPT !.tplLabels =
                defaultTemplateLabel(
                    defaultTemplateLabel(@, "k8s-app", o.name),
                    "app.kubernetes.io/name", o.name)]

HasEnv(c, name) == \E i \in DOMAIN c.env : c.env[i][1] = name

\* (mutant) the variable is appended without looking for one of that name.
injectTLSCiphersAlways(o, v) ==
    IF o.kind \notin {"Deployment", "DaemonSet"} THEN o
    ELSE [o EXCEPT !.containers =
            [i \in DOMAIN @ |->
                IF v # ""
                THEN [@[i] EXCEPT !.env = Append(@, <<TLS_CIPHERS_ENV_VAR_NAME, v>>)]
                ELSE @[i]]]

\* ensureTLSCiphers after a successful GetInstallation with cipher suites v.
injectTLSCiphers(o, v) ==
    IF o.kind \notin {"Deployment", "DaemonSet"} THEN o
    ELSE [o EXCEPT !.containers =
            [i \in DOMAIN @ |->
                IF ~HasEnv(@[i], TLS_CIPHERS_ENV_VAR_NAME) /\ v # ""
                THEN [@[i] EXCEPT !.env = Append(@, <<TLS_CIPHERS_ENV_VAR_NAME, v>>)]
                ELSE @[i]]]

\* The steps of createOrUpdateObject between the owner reference and
\* ensureTLSCiphers.
mutateSpec(o, osType) ==
    setStandardSelectorAndLabels(
        setProbeTimeouts(
            orderVolumeMounts(
                orderVolumes(
                    setImagePullPolicy(
                        ensureOSSchedulingRestrictions(o, osType))))))

----------------------------------------------------------------------------
(* The merge policy *)

NilObj == [kind |-> "nil"]

\* The fields of an object that make up its Spec, as reflect.DeepEqual
\* compares them: pod-template annotations that are nil differ from an
\* allocated map without entries.
SpecOf(o) ==
    [data |-> o.data, clusterIP |-> o.clusterIP, replicas |-> o.replicas,
     hasSelector |-> o.hasSelector, selector |-> o.selector,
     tplLabels |-> o.tplLabels, tplAnnots |-> o.tplAnnots,
     tplAnnotsNil |-> o.tplAnnotsNil,
     nodeSel |-> o.nodeSel, containers |-> o.containers,
     volumes |-> o.volumes, esRef |-> o.esRef]

\* (mutant) the labels and annotations are the desired ones alone.
mergeMetaDesiredOnly(desired, current) ==
    LET a == [desired EXCEPT
                !.rv = IF @ = 0 THEN current.rv ELSE @,
                !.uid = IF @ = 0 THEN current.uid ELSE @,
                !.ct = IF @ = 0 THEN current.ct ELSE @,
                !.gen = current.gen]
    IN IF checkIfMultipleOwnersLabel(a)
       THEN [a EXCEPT !.owners = MergeOwnerReferences(@, current.owners),
                      !.labels = Remove(@, MultipleOwnersLabel)]
       ELSE a

\* The part of mergeState that applies to every kind: resource version, UID,
\* creation timestamp, generation, annotations, labels, owner references.
mergeMeta(desired, current) ==
    LET a == [desired EXCEPT
                !.rv = IF @ = 0 THEN current.rv ELSE @,
                !.uid = IF @ = 0 THEN current.uid ELSE @,
                !.ct = IF @ = 0 THEN current.ct ELSE @,
                !.gen = current.gen,
                !.annots = MergeMaps(current.annots, @),
                !.labels = MergeMaps(current.labels, @)]
    IN IF checkIfMultipleOwnersLabel(a)
       THEN [a EXCEPT !.owners = MergeOwnerReferences(@, current.owners),
                      !.labels = Remove(@, MultipleOwnersLabel)]
       ELSE a

sameImages(cj, dj) ==
    /\ Len(cj.containers) = Len(dj.containers)
    /\ \A i \in DOMAIN cj.containers : cj.containers[i].image = dj.containers[i].image

\* (mutant) a NetworkPolicy or Tier is handed on for update whatever its
\* Spec.
mergeStatePolicyAlways(desired, current) ==
    LET d == mergeMeta(desired, current) IN
    IF d.kind = "Job"
    THEN IF /\ sameImages(current, d)
            /\ current.tplAnnots = d.tplAnnots
            /\ current.tplAnnotsNil = d.tplAnnotsNil
         THEN NilObj ELSE d
    ELSE d

\* (mutant) the Deployment keeps the desired replica count, set or not.
mergeStateDroppingReplicas(desired, current) ==
    LET d == mergeMeta(desired, current) IN
    IF d.kind = "Deployment"
    THEN [d EXCEPT !.tplLabels = MergeMaps(current.tplLabels, @),
                   !.tplAnnots = MergeMaps(current.tplAnnots, @),
                   !.tplAnnotsNil = FALSE]
    ELSE d

\* mergeState returns the object to pass to Update, or NilObj for nil.
mergeState(desired, current) ==
    LET d == mergeMeta(desired, current) IN
    CASE d.kind = "Service" ->
           IF d.clusterIP # "None" THEN [d EXCEPT !.clusterIP = current.clusterIP] ELSE d
      [] d.kind = "Job" ->
           IF ~sameImages(current, d) THEN d
           ELSE IF /\ current.tplAnnots = d.tplAnnots
                   /\ current.tplAnnotsNil = d.tplAnnotsNil
           THEN NilObj
           ELSE d
      [] d.kind = "Deployment" ->
           [d EXCEPT !.replicas = IF @ = 0 THEN current.replicas ELSE @,
                     !.tplLabels = MergeMaps(current.tplLabels, @),
                     !.tplAnnots = MergeMaps(current.tplAnnots, @),
                     !.tplAnnotsNil = FALSE]
      [] d.kind = "DaemonSet" ->
           [d EXCEPT !.tplLabels = MergeMaps(current.tplLabels, @),
                     !.tplAnnots = MergeMaps(current.tplAnnots, @),
                     !.tplAnnotsNil = FALSE]
      [] d.kind = "ServiceAccount" ->
           [d EXCEPT !.secrets = IF current.secrets # {} /\ @ = {}
                                 THEN current.secrets ELSE @,
                     !.pullSecrets = IF current.pullSecrets # {} /\ @ = {}
                                     THEN current.pullSecrets ELSE @]
      [] d.kind = "Elasticsearch" ->
           IF SpecOf(current) = SpecOf(d) THEN current
           ELSE [d EXCEPT !.annots = current.annots,
                          !.finalizers = current.finalizers,
                          !.status = current.status]
      [] d.kind = "Kibana" ->
           IF SpecOf(current) = SpecOf(d) THEN current
           ELSE [d EXCEPT !.annots = current.annots,
                          !.finalizers = current.finalizers,
                          !.esRef = current.esRef,
                          !.status = current.status]
      [] d.kind = "UISettings" ->
           IF SpecOf(current) = SpecOf(d) THEN current
           ELSE [d EXCEPT !.owners = current.owners]
      [] d.kind \in {"NetworkPolicy", "Tier"} ->
           IF SpecOf(current) = SpecOf(d) THEN NilObj ELSE d
      [] OTHER -> d

\* (mutant) a Service is never deleted and created again.
needsRecreateNoService(obj, cur) ==
    CASE obj.kind = "Job" -> TRUE
      [] obj.kind = "Secret" ->
           obj.stype # cur.stype /\ ~(obj.stype = "" /\ cur.stype = "Opaque")
      [] obj.kind \in {"RoleBinding", "ClusterRoleBinding"} ->
           obj.roleRef # cur.roleRef
      [] OTHER -> FALSE

\* (mutant) a Secret is deleted and created again whenever the types differ.
needsRecreateOnAnyTypeChange(obj, cur) ==
    CASE obj.kind = "Job" -> TRUE
      [] obj.kind = "Secret" -> obj.stype # cur.stype
      [] obj.kind = "Service" ->
           obj.clusterIP = "None" /\ cur.clusterIP # "None"
      [] obj.kind \in {"RoleBinding", "ClusterRoleBinding"} ->
           obj.roleRef # cur.roleRef
      [] OTHER -> FALSE

\* The cases of createOrUpdateObject that delete the object and create it
\* again instead of updating it.
needsRecreate(obj, cur) ==
    CASE obj.kind = "Job" -> TRUE
      [] obj.kind = "Secret" ->
           obj.stype # cur.stype /\ ~(obj.stype = "" /\ cur.stype = "Opaque")
      [] obj.kind = "Service" ->
           obj.clusterIP = "None" /\ cur.clusterIP # "None"
      [] obj.kind \in {"RoleBinding", "ClusterRoleBinding"} ->
           obj.roleRef # cur.roleRef
      [] OTHER -> FALSE

resetMetadataForCreate(o) == [o EXCEPT !.rv = 0, !.uid = 0, !.ct = 0]

\* IgnoreObject: the object carries the ignore annotation.
IgnoreObject(o) ==
    HasKey(o.annots, IgnoreAnnotation) /\ ValueOf(o.annots, IgnoreAnnotation) = "true"

----------------------------------------------------------------------------
(* The deduplication cache *)

cacheSet(c, o, generation) ==
    [c EXCEPT ![Key(o)] = [ok |-> TRUE, obj |-> o, gen |-> generation]]

cacheDelete(c, k) == [c EXCEPT ![k] = NoEntry]

\* (mutant) an object whose generation is not newer than the cached one is
\* taken as unchanged.
needsUpdateByGenerationOnly(c, o) ==
    LET e == c[Key(o)] IN
    IF ~e.ok THEN TRUE
    ELSE e.gen < o.gen

\* (mutant) an identity dCache does not hold is taken as up to date.
needsUpdateSkippingUncached(c, o) ==
    LET e == c[Key(o)] IN
    IF ~e.ok THEN FALSE
    ELSE IF e.gen < o.gen THEN TRUE
    ELSE IF e.obj = o THEN FALSE
    ELSE TRUE

\* componentHandler.needsUpdate
needsUpdate(c, o) ==
    LET e == c[Key(o)] IN
    IF ~e.ok THEN TRUE
    ELSE IF e.gen < o.gen THEN TRUE
    ELSE IF e.obj = o THEN FALSE
    ELSE TRUE

----------------------------------------------------------------------------
(* The cluster API server, as the client sees it *)

\* The object as the server takes it: a Secret without a type is Opaque, a
\* Service without a cluster IP is assigned one, and a map without entries
\* is left out of the wire form, so that it is read back as nil.
serverDefaults(o) ==
    [o EXCEPT !.stype = IF o.kind = "Secret" /\ @ = "" THEN "Opaque" ELSE @,
              !.clusterIP = IF o.kind = "Service" /\ @ = "" THEN "10.0.0.1" ELSE @,
              !.tplAnnotsNil = (o.tplAnnots = {})]

\* Create: NotFound for an object of a namespace that does not exist,
\* AlreadyExists for a stored object, Invalid for a payload that carries a
\* resource version; the server assigns resource version, UID, creation
\* timestamp and generation.
createError(stored, o) ==
    IF o.ns # "" /\ o.ns \notin DOMAIN nsTerm THEN "NotFound"
    ELSE IF stored # Absent THEN "AlreadyExists"
    ELSE IF o.rv # 0 THEN "Invalid"
    ELSE "nil"

created(o, n) ==
    [serverDefaults(o) EXCEPT !.rv = n + 1, !.uid = n + 1, !.ct = 1, !.gen = 1]

\* Update: NotFound, or Conflict when the payload's resource version or UID
\* is not the stored one, or Invalid when an immutable field changes.
updateError(stored, o) ==
    IF stored = Absent THEN "NotFound"
    ELSE IF (o.rv # 0 /\ o.rv # stored.rv) \/ (o.uid # 0 /\ o.uid # stored.uid)
    THEN "Conflict"
    ELSE IF serverDefaults(o).stype # stored.stype \/ o.roleRef # stored.roleRef
    THEN "Invalid"
    ELSE "nil"

\* The stored object after a successful update: a payload that changes
\* nothing leaves the resource version alone; the generation grows when the
\* Spec changes.
updated(stored, o, n) ==
    LET norm == [serverDefaults(o) EXCEPT !.rv = stored.rv, !.uid = stored.uid,
                                          !.ct = stored.ct, !.gen = stored.gen]
    IN IF norm = stored THEN stored
       ELSE [norm EXCEPT !.rv = n + 1,
                         !.gen = IF SpecOf(norm) # SpecOf(stored) THEN @ + 1 ELSE @]

----------------------------------------------------------------------------
(* The components the callers hand to the engine *)

CM == [NewObj("ConfigMap", "n1", "cm") EXCEPT !.data = 1]

DEP ==
    [NewObj("Deployment", "n1", "dep") EXCEPT
        !.containers = <<[NewContainer("img1") EXCEPT
                            !.mounts = <<2, 1>>,
                            !.lp = [NoProbe EXCEPT !.present = TRUE]]>>,
        !.volumes = <<2, 1>>]

SEC == [NewObj("Secret", "n1", "sec") EXCEPT !.stype = "Opaque"]

SECTLS == [SEC EXCEPT !.stype = "kubernetes.io/tls"]

CRB == [NewObj("ClusterRoleBinding", "", "crb") EXCEPT !.roleRef = "role1"]

RB ==
    [NewObj("RoleBinding", "n1", "rb") EXCEPT
        !.roleRef = "role1", !.labels = {<<"app", "rb">>}]

ES ==
    [NewObj("Elasticsearch", "n1", "es") EXCEPT
        !.data = 1, !.containers = <<NewContainer("es")>>]

KB ==
    [NewObj("Kibana", "n1", "kb") EXCEPT
        !.data = 1, !.esRef = "es", !.containers = <<NewContainer("kb")>>,
        !.annots = {<<"team", "kb">>}]

\* A Kibana whose pod-template annotations are an allocated map without
\* entries.
KBE == [KB EXCEPT !.name = "kbe", !.tplAnnotsNil = FALSE]

UISET ==
    [NewObj("UISettings", "", "uiset") EXCEPT !.data = 1, !.labels = {<<"app", "ui">>}]

\* A Deployment that names its replica count.
DEPR == [DEP EXCEPT !.name = "depr", !.replicas = 2]

JOB == [NewObj("Job", "n1", "job") EXCEPT !.containers = <<NewContainer("job1")>>]

\* A ConfigMap that several owners share.
CMS ==
    [NewObj("ConfigMap", "n1", "shared") EXCEPT
        !.data = 1, !.labels = {<<MultipleOwnersLabel, "true">>, <<"app", "shared">>}]

\* A Service that takes the cluster IP it is given, and a headless one that
\* several owners share.
SVC == [NewObj("Service", "n1", "svc") EXCEPT !.data = 1]

SVCH ==
    [NewObj("Service", "n1", "svch") EXCEPT
        !.data = 1, !.clusterIP = "None",
        !.labels = {<<MultipleOwnersLabel, "true">>}]

\* A Secret that names no type, and one of type kubernetes.io/tls.
SECU == [NewObj("Secret", "n1", "secu") EXCEPT !.data = 1]

SECT == [NewObj("Secret", "n1", "sect") EXCEPT !.data = 1, !.stype = "kubernetes.io/tls"]

\* A Job whose pod template carries an annotation, and one of two
\* containers.
JOBA ==
    [JOB EXCEPT !.name = "joba", !.tplAnnots = {<<"hash", "1">>},
                !.tplAnnotsNil = FALSE]

JOBC ==
    [JOB EXCEPT !.name = "jobc",
                !.containers = <<NewContainer("job1"), NewContainer("side1")>>]

\* A ConfigMap for a namespace that does not exist.
CMX == [NewObj("ConfigMap", "n2", "cmx") EXCEPT !.data = 1]

\* A Job whose pod template carries an allocated map of no annotations.
JOBE == [JOB EXCEPT !.name = "jobe", !.tplAnnotsNil = FALSE]

\* Workloads of the other kinds the status manager is told of, and a
\* DaemonSet that is no longer wanted.
DSET == [NewObj("DaemonSet", "n1", "dset") EXCEPT !.containers = <<NewContainer("img1")>>]

STS == [NewObj("StatefulSet", "n1", "sts") EXCEPT !.containers = <<NewContainer("img1")>>]

CJ == [NewObj("CronJob", "n1", "cj") EXCEPT !.containers = <<NewContainer("img1")>>]

DSO == [DSET EXCEPT !.name = "dso"]

\* A NetworkPolicy and a Tier.
NP ==
    [NewObj("NetworkPolicy", "n1", "np") EXCEPT
        !.data = 1, !.labels = {<<"app", "np">>}]

TIER == [NewObj("Tier", "", "tier") EXCEPT !.data = 1]

\* render.Component: Objects() and SupportedOSType().
CompDef(c) ==
    CASE c = 1 ->
           [desired |-> <<CRB, DEP, SEC>>, obsolete |-> <<>>, osType |-> "linux"]
      [] c = 2 ->
           [desired |-> <<CM, SECTLS>>, obsolete |-> <<DEP>>, osType |-> "any"]
      [] c = 3 ->
           [desired |-> <<RB, ES, KB>>, obsolete |-> <<>>, osType |-> "linux"]
      [] c = 4 ->
           [desired |-> <<DEP, DEPR>>, obsolete |-> <<>>, osType |-> "linux"]
      [] c = 5 ->
           [desired |-> <<JOB, UISET>>, obsolete |-> <<>>, osType |-> "linux"]
      [] c = 6 ->
           [desired |-> <<CMS>>, obsolete |-> <<>>, osType |-> "any"]
      [] c = 7 ->
           [desired |-> <<SVC, SVCH>>, obsolete |-> <<>>, osType |-> "linux"]
      [] c = 8 ->
           [desired |-> <<SECU, SECT>>, obsolete |-> <<>>, osType |-> "linux"]
      [] c = 9 ->
           [desired |-> <<JOBA, JOBC, JOBE>>, obsolete |-> <<>>, osType |-> "linux"]
      [] c = 10 ->
           [desired |-> <<NP, TIER>>, obsolete |-> <<>>, osType |-> "any"]
      [] c = 11 ->
           [desired |-> <<DEP>>, obsolete |-> <<>>, osType |-> "linux"]
      [] c = 12 ->
           [desired |-> <<SECT>>, obsolete |-> <<>>, osType |-> "any"]
      [] c = 13 ->
           [desired |-> <<SECU>>, obsolete |-> <<>>, osType |-> "any"]
      [] c = 14 ->
           [desired |-> <<NP>>, obsolete |-> <<>>, osType |-> "any"]
      [] c = 15 ->
           [desired |-> <<CMX>>, obsolete |-> <<>>, osType |-> "any"]
      [] c = 17 ->
           [desired |-> <<DEPR, DSET, CM, DEP, STS, CJ>>, obsolete |-> <<DSO>>,
            osType |-> "linux"]
      [] c = 16 ->
           [desired |-> <<RB, KB, ES, CMS, SVCH, KBE>>, obsolete |-> <<>>,
            osType |-> "linux"]

\* What the callers pass: the component, what its Ready() answers, and
\* whether a status manager is given.
CallInputs ==
    {[comp |-> 1, ready |-> TRUE, hasStatus |-> TRUE],
     [comp |-> 2, ready |-> TRUE, hasStatus |-> TRUE],
     [comp |-> 1, ready |-> TRUE, hasStatus |-> FALSE],
     [comp |-> 2, ready |-> FALSE, hasStatus |-> TRUE],
     [comp |-> 15, ready |-> TRUE, hasStatus |-> TRUE]}

\* The identities of the objects of the components cs.
IdsOf(cs) ==
    UNION {{Key(CompDef(c).desired[i]) : i \in DOMAIN CompDef(c).desired}
              \cup {Key(CompDef(c).obsolete[i]) : i \in DOMAIN CompDef(c).obsolete}
           : c \in cs}

\* The identities the cluster, the cache and the record of writes are kept
\* for: those of the objects of the components a specification hands in.
Ids == DOMAIN cluster

\* The objects other actors write to.
ExtIds == {Key(CM), Key(DEP), Key(SEC)}

\* The namespaces that exist.
Namespaces == {"n1"}

\* The object an identity names, as another actor would write it.
Foreign(k) ==
    [(CHOOSE o \in {CM, DEP, SEC, CRB, RB, ES, KB, DEPR, JOB} : Key(o) = k)
        EXCEPT !.labels = {<<"ext", "1">>}]

----------------------------------------------------------------------------
(* CreateOrUpdateOrDelete: the local code between two API calls *)

\* objsToCreate and objsToDelete, as component.Objects() returned them at
\* the start of the call.
Desired(s) == s.objsToCreate

Obsolete(s) == s.objsToDelete

\* (mutant) the list is walked from its end.
ObjAtReversed(list, i) == list[Len(list) + 1 - i]

\* The i-th object of the list being processed.
ObjAt(list, i) == list[i]

\* An API call is recorded with the object it carried (payload), the object
\* a Get read (cur) and the object it was read for (obj), whether dCache held
\* the identity when it was made, and the resource version the handler's
\* last successful write of the identity left (wrote, 0 for none).
Logged(s, op, k, res) ==
    [s EXCEPT !.log = Append(@, [op |-> op, key |-> k, res |-> res,
                                 phase |-> s.phase, i |-> s.i,
                                 attempt |-> s.attempt, createOnly |-> s.createOnly,
                                 payload |-> IF op \in {"Create", "Update"}
                                             THEN s.payload ELSE NilObj,
                                 cur |-> IF op = "Get" /\ res = "nil"
                                         THEN s.cur ELSE NilObj,
                                 obj |-> IF op = "Get" THEN s.obj ELSE NilObj,
                                 wrote |-> s.written[k],
                                 cached |-> cache[k].ok])]

\* (mutant) a recorded AlreadyExists wins over a later error.
ReturnPreferringAlreadyExists(s, err) ==
    [s EXCEPT !.pc = "idle",
              !.result = IF s.aeErr /\ err # "nil" THEN "AlreadyExists" ELSE err,
              !.quiet = (err = "nil" /\ s.ready)]

\* return err
Return(s, err) ==
    [s EXCEPT !.pc = "idle", !.result = err,
              !.quiet = (err = "nil" /\ s.ready)]

\* (mutant) ReadyToMonitor is left out when an AlreadyExists was recorded.
FinishQuietOnAlreadyExists(s) ==
    LET a == IF s.hasStatus /\ ~s.aeErr
             THEN [s EXCEPT !.slog = Append(@, <<"ReadyToMonitor">>)]
             ELSE s
    IN Return(a, IF s.aeErr THEN "AlreadyExists" ELSE "nil")

\* status.ReadyToMonitor() and the final return.
Finish(s) ==
    LET a == IF s.hasStatus
             THEN [s EXCEPT !.slog = Append(@, <<"ReadyToMonitor">>)]
             ELSE s
    IN Return(a, IF s.aeErr THEN "AlreadyExists" ELSE "nil")

RemoveCall(kind) ==
    CASE kind = "Deployment" -> "RemoveDeployments"
      [] kind = "DaemonSet" -> "RemoveDaemonsets"
      [] kind = "StatefulSet" -> "RemoveStatefulSets"
      [] kind = "CronJob" -> "RemoveCronJobs"
      [] OTHER -> ""

\* The end of one round of the objsToDelete loop.
NextObsolete(s) ==
    LET o == ObjAt(Obsolete(s), s.i)
        a == IF s.hasStatus /\ RemoveCall(o.kind) # ""
             THEN [s EXCEPT !.slog = Append(@, <<RemoveCall(o.kind), Key(o)>>)]
             ELSE s
    IN IF s.i < Len(Obsolete(s))
       THEN [a EXCEPT !.i = s.i + 1, !.pc = "delget"]
       ELSE Finish(a)

\* (mutant) NotFound from the delete of an obsolete object is returned.
EndObsoleteStrict(s, err) ==
    IF err # "nil" THEN Return(s, err) ELSE NextObsolete(s)

\* c.delete returned err in the objsToDelete loop.
EndObsolete(s, err) ==
    IF err # "nil" /\ err # "NotFound" THEN Return(s, err) ELSE NextObsolete(s)

\* (mutant) the Deployments are not reported.
AddCallsWithoutDeployments(s) ==
    LET add(l, name, keys) == IF Len(keys) > 0 THEN Append(l, <<name, keys>>) ELSE l
    IN add(add(add(s.slog, "AddDaemonsets", s.daemonSets),
               "AddStatefulSets", s.statefulsets),
           "AddCronJobs", s.cronJobs)

AddCalls(s) ==
    LET add(l, name, keys) == IF Len(keys) > 0 THEN Append(l, <<name, keys>>) ELSE l
    IN add(add(add(add(s.slog, "AddDaemonsets", s.daemonSets),
                   "AddDeployments", s.deployments),
               "AddStatefulSets", s.statefulsets),
           "AddCronJobs", s.cronJobs)

\* After the objsToCreate loop: report to the status manager, then start on
\* objsToDelete.
AfterDesired(s) ==
    LET a == IF s.hasStatus THEN [s EXCEPT !.slog = AddCalls(s)] ELSE s
    IN IF Len(Obsolete(s)) > 0
       THEN [a EXCEPT !.phase = "obsolete", !.i = 1, !.attempt = 1, !.pc = "delget"]
       ELSE Finish(a)

\* (mutant) the retry works on the object the failed attempt left behind.
StartAttemptOnSameObject(s) ==
    LET from == IF s.attempt > 1 /\ s.payload # NilObj THEN s.payload
                ELSE ObjAt(Desired(s), s.i)
        r == setOwner(s.cr, from)
    IN IF r.err # "nil" THEN Return(s, r.err)
       ELSE LET o == mutateSpec(r.obj, s.osType) IN
            [s EXCEPT !.obj = o,
                      !.pc = IF o.kind \in {"Deployment", "DaemonSet"} THEN "tls" ELSE "get"]

\* createOrUpdateObject up to its first API call, on a copy of the caller's
\* object.
StartAttempt(s) ==
    LET r == setOwner(s.cr, ObjAt(Desired(s), s.i)) IN
    IF r.err # "nil" THEN Return(s, r.err)
    ELSE LET o == mutateSpec(r.obj, s.osType) IN
         [s EXCEPT !.obj = o,
                   !.pc = IF o.kind \in {"Deployment", "DaemonSet"} THEN "tls" ELSE "get"]

BeginObject(s, i) ==
    StartAttempt([s EXCEPT !.i = i, !.attempt = 1, !.alreadyRetriedConflict = FALSE])

\* The end of one round of the objsToCreate loop: keep track of the workloads.
NextObject(s) ==
    LET k == ObjAt(Desired(s), s.i).kind
        key == Key(ObjAt(Desired(s), s.i))
        a == [s EXCEPT
                !.deployments = IF k = "Deployment" THEN Append(@, key) ELSE @,
                !.daemonSets = IF k = "DaemonSet" THEN Append(@, key) ELSE @,
                !.statefulsets = IF k = "StatefulSet" THEN Append(@, key) ELSE @,
                !.cronJobs = IF k = "CronJob" THEN Append(@, key) ELSE @]
    IN IF s.i < Len(Desired(s)) THEN BeginObject(a, s.i + 1) ELSE AfterDesired(a)

\* (mutant) a conflict is retried every time.
EndAttemptUnbounded(s, err) ==
    IF err = "nil" THEN NextObject(s)
    ELSE IF err = "AlreadyExists" THEN NextObject([s EXCEPT !.aeErr = TRUE])
    ELSE IF err = "Conflict"
    THEN StartAttempt([s EXCEPT !.alreadyRetriedConflict = TRUE, !.attempt = @ + 1])
    ELSE Return(s, err)

\* (mutant) an error of one object does not stop the loop.
EndAttemptCarryOn(s, err) ==
    IF err = "nil" THEN NextObject(s)
    ELSE IF err = "Conflict" /\ ~s.alreadyRetriedConflict
    THEN StartAttempt([s EXCEPT !.alreadyRetriedConflict = TRUE, !.attempt = @ + 1])
    ELSE NextObject([s EXCEPT !.aeErr = TRUE])

\* The conflictRetry block: what the loop does with the error of
\* createOrUpdateObject.
EndAttempt(s, err) ==
    IF err = "nil" THEN NextObject(s)
    ELSE IF err = "AlreadyExists" THEN NextObject([s EXCEPT !.aeErr = TRUE])
    ELSE IF err = "Conflict" /\ ~s.alreadyRetriedConflict
    THEN StartAttempt([s EXCEPT !.alreadyRetriedConflict = TRUE, !.attempt = @ + 1])
    ELSE Return(s, err)

\* (mutant) the component's Ready() is not consulted.
BeginIgnoringReady(s) ==
    IF Len(Desired(s)) = 0 THEN AfterDesired(s) ELSE BeginObject(s, 1)

\* CreateOrUpdateOrDelete up to its first API call.
Begin(s) ==
    IF ~s.ready THEN Return(s, "nil")
    ELSE IF Len(Desired(s)) = 0 THEN AfterDesired(s)
    ELSE BeginObject(s, 1)

\* (mutant) the merged object is created as it is, resource version and
\* UID of the deleted object included.
EndDeleteKeepingMetadata(s, err) ==
    IF s.phase = "obsolete" THEN EndObsolete(s, err)
    ELSE IF err # "nil" THEN EndAttempt(s, err)
    ELSE [s EXCEPT !.pc = "create", !.payload = s.mobj]

\* c.delete returned err: inside createOrUpdateObject or in the objsToDelete
\* loop.
EndDelete(s, err) ==
    IF s.phase = "obsolete" THEN EndObsolete(s, err)
    ELSE IF err # "nil" THEN EndAttempt(s, err)
    ELSE [s EXCEPT !.pc = "create", !.payload = resetMetadataForCreate(s.mobj)]

\* The object c.delete works on.
DeleteTarget(s) ==
    IF s.phase = "obsolete" THEN ObjAt(Obsolete(s), s.i) ELSE s.obj

\* (mutant) the object is created with the marker label on it.
CreatePayloadKeepingLabel(o) == o

\* The create of an object that was not found: the marker label is removed.
CreatePayload(o) ==
    IF checkIfMultipleOwnersLabel(o)
    THEN [o EXCEPT !.labels = Remove(@, MultipleOwnersLabel)]
    ELSE o

\* (mutant) create-only mode does not stop the update of a found object.
FoundIgnoringCreateOnly(s, cur, c) ==
    IF IgnoreObject(cur) THEN EndAttempt(s, "nil")
    ELSE LET m == mergeState(s.obj, cur) IN
         IF m = NilObj THEN EndAttempt(s, "nil")
         ELSE IF needsRecreate(s.obj, cur)
         THEN [s EXCEPT !.mobj = m, !.pc = "delget"]
         ELSE LET a == [s EXCEPT !.cacheOps = @ + 1] IN
              IF ~needsUpdate(c, m) THEN EndAttempt(a, "nil")
              ELSE [a EXCEPT !.mobj = m, !.payload = m, !.pc = "update"]

\* (mutant) the ignore annotation of the current object is not looked at.
FoundNotIgnoring(s, cur, c) ==
    IF s.createOnly THEN EndAttempt(s, "AlreadyExists")
    ELSE LET m == mergeState(s.obj, cur) IN
         IF m = NilObj THEN EndAttempt(s, "nil")
         ELSE IF needsRecreate(s.obj, cur)
         THEN [s EXCEPT !.mobj = m, !.pc = "delget"]
         ELSE LET a == [s EXCEPT !.cacheOps = @ + 1] IN
              IF ~needsUpdate(c, m) THEN EndAttempt(a, "nil")
              ELSE [a EXCEPT !.mobj = m, !.payload = m, !.pc = "update"]

\* createOrUpdateObject once the object was found on the cluster.
Found(s, cur, c) ==
    IF s.createOnly THEN EndAttempt(s, "AlreadyExists")
    ELSE IF IgnoreObject(cur) THEN EndAttempt(s, "nil")
    ELSE LET m == mergeState(s.obj, cur) IN
         IF m = NilObj THEN EndAttempt(s, "nil")
         ELSE IF needsRecreate(s.obj, cur)
         THEN [s EXCEPT !.mobj = m, !.pc = "delget"]
         ELSE LET a == [s EXCEPT !.cacheOps = @ + 1] IN
              IF ~needsUpdate(c, m) THEN EndAttempt(a, "nil")
              ELSE [a EXCEPT !.mobj = m, !.payload = m, !.pc = "update"]

----------------------------------------------------------------------------
(* The state machine *)

Idle ==
    [pc |-> "idle", createOnly |-> FALSE, cr |-> [name |-> "installation", ns |-> ""],
     comp |-> 0, ready |-> FALSE, hasStatus |-> FALSE,
     objsToCreate |-> <<>>, objsToDelete |-> <<>>, osType |-> "any",
     phase |-> "desired", i |-> 0, attempt |-> 0,
     alreadyRetriedConflict |-> FALSE, aeErr |-> FALSE,
     obj |-> NilObj, cur |-> NilObj, mobj |-> NilObj, payload |-> NilObj,
     deployments |-> <<>>, daemonSets |-> <<>>, statefulsets |-> <<>>,
     cronJobs |-> <<>>,
     result |-> "none", log |-> <<>>, slog |-> <<>>, cacheOps |-> 0,
     quiet |-> FALSE, repeat |-> FALSE,
     written |-> [k \in Ids |-> 0]]

Init ==
    /\ cluster = [k \in IdsOf({1, 2, 15}) |-> Absent]
    /\ wseq = [k \in Ids |-> 0]
    /\ nsTerm = [n \in Namespaces |-> FALSE]
    /\ install = "TLS_AES_128_GCM_SHA256"
    /\ cache = [k \in Ids |-> NoEntry]
    /\ eng = Idle
    /\ calls = 0
    /\ env = 0
    /\ hs = <<>>
    /\ pipe = NilObj
    /\ mon = NilObj

\* componentHandler.SetCreateOnly
SetCreateOnly ==
    /\ eng.pc = "idle"
    /\ ~eng.createOnly
    /\ eng' = [eng EXCEPT !.createOnly = TRUE]
    /\ UNCHANGED <<cluster, wseq, nsTerm, install, cache, calls, env>>
    /\ UNCHANGED others

\* CreateOrUpdateOrDelete is called: the code up to the first API call.
Called(c, ready, hasStatus) ==
    Begin([eng EXCEPT
              !.comp = c, !.ready = ready, !.hasStatus = hasStatus,
              !.objsToCreate = CompDef(c).desired,
              !.objsToDelete = CompDef(c).obsolete,
              !.osType = CompDef(c).osType,
              !.phase = "desired", !.i = 0, !.attempt = 0,
              !.alreadyRetriedConflict = FALSE, !.aeErr = FALSE,
              !.obj = NilObj, !.cur = NilObj, !.mobj = NilObj,
              !.payload = NilObj,
              !.deployments = <<>>, !.daemonSets = <<>>,
              !.statefulsets = <<>>, !.cronJobs = <<>>,
              !.result = "none", !.log = <<>>, !.slog = <<>>, !.cacheOps = 0,
              !.quiet = FALSE,
              !.repeat = (eng.quiet /\ eng.comp = c /\ ready)])

\* A caller invokes CreateOrUpdateOrDelete on component c.
Call(c, ready, hasStatus) ==
    /\ eng.pc = "idle"
    /\ calls < MaxCalls
    /\ calls' = calls + 1
    /\ eng' = Called(c, ready, hasStatus)
    /\ UNCHANGED <<cluster, wseq, nsTerm, install, cache, env>>
    /\ UNCHANGED others

\* An API call fails with an error that is none of NotFound, AlreadyExists
\* and Conflict (a timeout, a cancelled context, a refused request).
Fault ==
    /\ env < MaxEnv
    /\ env' = env + 1

NoFault == UNCHANGED env

\* ensureTLSCiphers: GetInstallation, then the environment variable.
GetInstallation ==
    /\ eng.pc = "tls"
    /\ \/ /\ NoFault
          /\ LET s == Logged(eng, "GetInstallation", Key(eng.obj),
                             IF install = "absent" THEN "NotFound" ELSE "nil")
             IN eng' = [s EXCEPT !.pc = "get",
                                 !.obj = IF install = "absent" THEN @
                                         ELSE injectTLSCiphers(@, install)]
       \/ /\ Fault
          /\ eng' = EndAttempt(Logged(eng, "GetInstallation", Key(eng.obj), "Err"), "Err")
    /\ UNCHANGED <<cluster, wseq, nsTerm, install, cache, calls>>
    /\ UNCHANGED others

\* createOrUpdateObject: client.Get of the current object and what follows.
Get ==
    /\ eng.pc = "get"
    /\ LET k == Key(eng.obj)
           cur == cluster[k]
       IN \/ /\ NoFault
             /\ cur = Absent
             /\ cache' = cacheDelete(cache, k)
             /\ LET s == [Logged(eng, "Get", k, "NotFound") EXCEPT !.cacheOps = @ + 1]
                IN eng' = IF eng.obj.ns # ""
                          THEN [s EXCEPT !.pc = "nsget"]
                          ELSE [s EXCEPT !.pc = "create",
                                         !.payload = CreatePayload(eng.obj)]
          \/ /\ NoFault
             /\ cur # Absent
             /\ eng' = Found(Logged([eng EXCEPT !.cur = cur], "Get", k, "nil"),
                             cur, cache)
             /\ UNCHANGED cache
          \/ /\ Fault
             /\ cache' = cacheDelete(cache, k)
             /\ eng' = EndAttempt([Logged(eng, "Get", k, "Err")
                                      EXCEPT !.cacheOps = @ + 1], "Err")
    /\ UNCHANGED <<cluster, wseq, nsTerm, install, calls>>
    /\ UNCHANGED others

\* (mutant) the deletion timestamp of the Namespace is not looked at.
GetNamespaceIgnoringTermination ==
    /\ eng.pc = "nsget"
    /\ LET k == Key(eng.obj) IN
       \/ /\ NoFault
          /\ eng' = [Logged(eng, "GetNamespace", k,
                            IF eng.obj.ns \notin DOMAIN nsTerm THEN "NotFound"
                            ELSE IF nsTerm[eng.obj.ns] THEN "Terminating"
                            ELSE "nil")
                        EXCEPT !.pc = "create", !.payload = CreatePayload(eng.obj)]
       \/ /\ Fault
          /\ eng' = EndAttempt(Logged(eng, "GetNamespace", k, "Err"), "Err")
    /\ UNCHANGED <<cluster, wseq, nsTerm, install, cache, calls>>
    /\ UNCHANGED others

\* createOrUpdateObject: the lookup of the object's Namespace.  GetIfExists
\* turns the NotFound of a namespace that does not exist into nil, and the
\* object is created all the same; only a deletion timestamp on the
\* namespace skips the create.
GetNamespace ==
    /\ eng.pc = "nsget"
    /\ LET k == Key(eng.obj)
           namespaceTerminating ==
               eng.obj.ns \in DOMAIN nsTerm /\ nsTerm[eng.obj.ns]
       IN
       \/ /\ NoFault
          /\ LET s == Logged(eng, "GetNamespace", k,
                             IF eng.obj.ns \notin DOMAIN nsTerm THEN "NotFound"
                             ELSE IF nsTerm[eng.obj.ns] THEN "Terminating"
                             ELSE "nil")
             IN eng' = IF namespaceTerminating
                       THEN EndAttempt(s, "nil")
                       ELSE [s EXCEPT !.pc = "create",
                                      !.payload = CreatePayload(eng.obj)]
       \/ /\ Fault
          /\ eng' = EndAttempt(Logged(eng, "GetNamespace", k, "Err"), "Err")
    /\ UNCHANGED <<cluster, wseq, nsTerm, install, cache, calls>>
    /\ UNCHANGED others

\* componentHandler.create
Create ==
    /\ eng.pc = "create"
    /\ LET k == Key(eng.payload)
           err == createError(cluster[k], eng.payload)
       IN \/ /\ NoFault
             /\ err = "nil"
             /\ cluster' = [cluster EXCEPT ![k] = created(eng.payload, wseq[k])]
             /\ wseq' = [wseq EXCEPT ![k] = @ + 1]
             /\ cache' = cacheSet(cache, eng.payload, cluster'[k].gen)
             /\ eng' = EndAttempt([Logged(eng, "Create", k, "nil")
                                      EXCEPT !.cacheOps = @ + 1,
                                             !.written[k] = cluster'[k].rv], "nil")
          \/ /\ NoFault
             /\ err # "nil"
             /\ eng' = EndAttempt(Logged(eng, "Create", k, err), err)
             /\ UNCHANGED <<cluster, wseq, cache>>
          \/ /\ Fault
             /\ eng' = EndAttempt(Logged(eng, "Create", k, "Err"), "Err")
             /\ UNCHANGED <<cluster, wseq, cache>>
    /\ UNCHANGED <<nsTerm, install, calls>>
    /\ UNCHANGED others

\* componentHandler.update, from client.Update on (needsUpdate was true).
Update ==
    /\ eng.pc = "update"
    /\ LET k == Key(eng.payload)
           err == updateError(cluster[k], eng.payload)
       IN \/ /\ NoFault
             /\ err = "nil"
             /\ cluster' = [cluster EXCEPT ![k] = updated(@, eng.payload, wseq[k])]
             /\ wseq' = [wseq EXCEPT ![k] = IF cluster'[k] = cluster[k] THEN @ ELSE @ + 1]
             /\ cache' = cacheSet(cache, eng.payload, cluster'[k].gen)
             /\ eng' = EndAttempt([Logged(eng, "Update", k, "nil")
                                      EXCEPT !.cacheOps = @ + 1,
                                             !.written[k] = cluster'[k].rv], "nil")
          \/ /\ NoFault
             /\ err = "NotFound"
             /\ cache' = cacheDelete(cache, k)
             /\ eng' = EndAttempt([Logged(eng, "Update", k, err)
                                      EXCEPT !.cacheOps = @ + 1], err)
             /\ UNCHANGED <<cluster, wseq>>
          \/ /\ NoFault
             /\ err \in {"Conflict", "Invalid"}
             /\ eng' = EndAttempt(Logged(eng, "Update", k, err), err)
             /\ UNCHANGED <<cluster, wseq, cache>>
          \/ /\ Fault
             /\ eng' = EndAttempt(Logged(eng, "Update", k, "Err"), "Err")
             /\ UNCHANGED <<cluster, wseq, cache>>
    /\ UNCHANGED <<nsTerm, install, calls>>
    /\ UNCHANGED others

\* (mutant) an object the lookup does not find keeps its entry in dCache.
DeleteGetKeepingCache ==
    /\ eng.pc = "delget"
    /\ LET k == Key(DeleteTarget(eng)) IN
       \/ /\ NoFault
          /\ cluster[k] = Absent
          /\ eng' = EndDelete(Logged(eng, "GetForDelete", k, "NotFound"), "nil")
       \/ /\ NoFault
          /\ cluster[k] # Absent
          /\ eng' = [Logged(eng, "GetForDelete", k, "nil") EXCEPT !.pc = "deldel"]
       \/ /\ Fault
          /\ eng' = [Logged(eng, "GetForDelete", k, "Err") EXCEPT !.pc = "deldel"]
    /\ UNCHANGED <<cluster, wseq, nsTerm, install, cache, calls>>
    /\ UNCHANGED others

\* componentHandler.delete: the lookup that decides whether to send the
\* delete.  Only NotFound ends it; any other error is not looked at.
DeleteGet ==
    /\ eng.pc = "delget"
    /\ LET k == Key(DeleteTarget(eng)) IN
       \/ /\ NoFault
          /\ cluster[k] = Absent
          /\ cache' = cacheDelete(cache, k)
          /\ eng' = EndDelete([Logged(eng, "GetForDelete", k, "NotFound")
                                  EXCEPT !.cacheOps = @ + 1], "nil")
       \/ /\ NoFault
          /\ cluster[k] # Absent
          /\ eng' = [Logged(eng, "GetForDelete", k, "nil") EXCEPT !.pc = "deldel"]
          /\ UNCHANGED cache
       \/ /\ Fault
          /\ eng' = [Logged(eng, "GetForDelete", k, "Err") EXCEPT !.pc = "deldel"]
          /\ UNCHANGED cache
    /\ UNCHANGED <<cluster, wseq, nsTerm, install, calls>>
    /\ UNCHANGED others

\* componentHandler.delete: client.Delete and the cache invalidation.
Delete ==
    /\ eng.pc = "deldel"
    /\ LET k == Key(DeleteTarget(eng)) IN
       \/ /\ NoFault
          /\ cluster[k] # Absent
          /\ cluster' = [cluster EXCEPT ![k] = Absent]
          /\ cache' = cacheDelete(cache, k)
          /\ eng' = EndDelete([Logged(eng, "Delete", k, "nil")
                                  EXCEPT !.cacheOps = @ + 1,
                                         !.written[k] = 0], "nil")
       \/ /\ NoFault
          /\ cluster[k] = Absent
          /\ cache' = cacheDelete(cache, k)
          /\ eng' = EndDelete([Logged(eng, "Delete", k, "NotFound")
                                  EXCEPT !.cacheOps = @ + 1], "NotFound")
          /\ UNCHANGED cluster
       \/ /\ Fault
          /\ eng' = EndDelete(Logged(eng, "Delete", k, "Err"), "Err")
          /\ UNCHANGED <<cluster, cache>>
    /\ UNCHANGED <<wseq, nsTerm, install, calls>>
    /\ UNCHANGED others

----------------------------------------------------------------------------
(* Other actors writing to the cluster.  A write made while the engine is  *)
(* idle reaches the engine as the same write made before the first API     *)
(* call of its next invocation, so the writes are taken during invocations.*)

Interfered == eng' = [eng EXCEPT !.quiet = FALSE, !.repeat = FALSE]

ExtCreate(k) ==
    /\ eng.pc # "idle"
    /\ env < MaxEnv
    /\ cluster[k] = Absent
    /\ cluster' = [cluster EXCEPT ![k] = created(Foreign(k), wseq[k])]
    /\ wseq' = [wseq EXCEPT ![k] = @ + 1]
    /\ env' = env + 1
    /\ Interfered
    /\ UNCHANGED <<nsTerm, install, cache, calls>>
    /\ UNCHANGED others

ExtDelete(k) ==
    /\ eng.pc # "idle"
    /\ env < MaxEnv
    /\ cluster[k] # Absent
    /\ cluster' = [cluster EXCEPT ![k] = Absent]
    /\ env' = env + 1
    /\ Interfered
    /\ UNCHANGED <<wseq, nsTerm, install, cache, calls>>
    /\ UNCHANGED others

\* A write that changes a label (no new generation) or the Spec (a new
\* generation).
ExtModify(k, spec) ==
    /\ eng.pc # "idle"
    /\ env < MaxEnv
    /\ cluster[k] # Absent
    /\ cluster' = [cluster EXCEPT ![k] =
                      IF spec
                      THEN [@ EXCEPT !.data = wseq[k] + 10, !.gen = @ + 1,
                                     !.rv = wseq[k] + 1]
                      ELSE [@ EXCEPT !.labels = Put(@, "ext", "2"),
                                     !.rv = wseq[k] + 1]]
    /\ wseq' = [wseq EXCEPT ![k] = @ + 1]
    /\ env' = env + 1
    /\ Interfered
    /\ UNCHANGED <<nsTerm, install, cache, calls>>
    /\ UNCHANGED others

\* The namespace is being deleted.
ExtTerminate(n) ==
    /\ eng.pc # "idle"
    /\ env < MaxEnv
    /\ ~nsTerm[n]
    /\ nsTerm' = [nsTerm EXCEPT ![n] = TRUE]
    /\ env' = env + 1
    /\ Interfered
    /\ UNCHANGED <<cluster, wseq, install, cache, calls>>
    /\ UNCHANGED others

Next ==
    \/ SetCreateOnly
    \/ \E in \in CallInputs : Call(in.comp, in.ready, in.hasStatus)
    \/ GetInstallation
    \/ Get
    \/ GetNamespace
    \/ Create
    \/ Update
    \/ DeleteGet
    \/ Delete
    \/ \E k \in ExtIds : ExtCreate(k)
    \/ \E k \in ExtIds : ExtDelete(k)
    \/ \E k \in ExtIds, spec \in BOOLEAN : ExtModify(k, spec)
    \/ \E n \in Namespaces : ExtTerminate(n)

Spec == Init /\ [][Next]_vars

----------------------------------------------------------------------------
(* The handler on a cluster that already holds objects of the kinds with a *)
(* merge policy of their own: role bindings, the status-managed resources  *)
(* and Deployments.                                                        *)

KindIds == {Key(RB), Key(ES), Key(KB), Key(DEP), Key(DEPR), Key(JOB), Key(UISET)}

\* The object as the server stores it once another actor, or an earlier run
\* of the operator, has written it.
Stored(o) == created([o EXCEPT !.labels = Put(@, "ext", "1")], 0)

\* What the cluster holds at the start: nothing; objects that differ from
\* the desired ones in a field the merge policy looks at; objects that
\* differ from them only in what others write (status, annotations,
\* replica count).
LiveAt(k, scenario) ==
    CASE scenario = 1 -> Absent
      [] scenario = 2 /\ k = Key(RB) ->
           [Stored(RB) EXCEPT !.roleRef = "role2", !.annots = {<<"note", "1">>}]
      [] scenario = 2 /\ k = Key(ES) ->
           [Stored(mutateSpec(ES, "linux")) EXCEPT !.data = 2, !.status = 5]
      [] scenario = 2 /\ k = Key(KB) ->
           [Stored(mutateSpec(KB, "linux")) EXCEPT
               !.esRef = "es0", !.status = 5, !.annots = {<<"eck", "1">>}]
      [] scenario = 3 /\ k = Key(RB) ->
           [Stored(RB) EXCEPT !.labels = {<<"app", "old">>, <<"ext", "1">>}]
      [] scenario = 3 /\ k = Key(ES) ->
           [Stored(mutateSpec(ES, "linux")) EXCEPT
               !.status = 5, !.annots = {<<"eck", "1">>}, !.finalizers = {"eck"}]
      [] scenario = 3 /\ k = Key(KB) ->
           [Stored(mutateSpec(KB, "linux")) EXCEPT !.status = 5]
      [] scenario = 2 /\ k = Key(JOB) ->
           [Stored(mutateSpec(JOB, "linux")) EXCEPT
               !.containers = <<[@[1] EXCEPT !.image = "job0"]>>, !.gen = 2, !.rv = 2]
      [] scenario = 3 /\ k = Key(JOB) -> Stored(mutateSpec(JOB, "linux"))
      [] scenario = 2 /\ k = Key(UISET) ->
           [Stored(UISET) EXCEPT
               !.data = 2, !.owners = {[name |-> "group", controller |-> TRUE]}]
      [] scenario = 3 /\ k = Key(UISET) ->
           [Stored(UISET) EXCEPT !.labels = {<<"ext", "1">>}]
      [] k = Key(DEP) -> [Stored(DEP) EXCEPT !.replicas = 3]
      [] k = Key(DEPR) -> [Stored(DEPR) EXCEPT !.replicas = 3]

Scenarios == {1, 2, 3}

InitKinds ==
    /\ \E sc \in Scenarios :
          cluster = [k \in IdsOf({3, 4, 5}) |->
                        IF k \in KindIds THEN LiveAt(k, sc) ELSE Absent]
    /\ wseq = [k \in Ids |-> IF cluster[k] = Absent THEN 0 ELSE cluster[k].rv]
    /\ nsTerm = [n \in Namespaces |-> FALSE]
    /\ install = "TLS_AES_128_GCM_SHA256"
    /\ cache = [k \in Ids |-> NoEntry]
    /\ eng = Idle
    /\ calls = 0
    /\ env = 0
    /\ hs = <<>>
    /\ pipe = NilObj
    /\ mon = NilObj

\* The objects other actors write to while the handler runs.
ExtKindIds == {Key(RB), Key(ES), Key(DEP), Key(JOB)}

NextKinds ==
    \/ \E c \in {3, 4, 5} : Call(c, TRUE, TRUE)
    \/ GetInstallation
    \/ Get
    \/ GetNamespace
    \/ Create
    \/ Update
    \/ DeleteGet
    \/ Delete
    \/ \E k \in ExtKindIds, spec \in BOOLEAN : ExtModify(k, spec)

SpecKinds == InitKinds /\ [][NextKinds]_vars

----------------------------------------------------------------------------
(* Components whose objects fall under the rules for the multiple-owners   *)
(* label, Services and Secrets, on a cluster that holds nothing, or holds  *)
(* the objects in a form the rules tell apart.                             *)

RuleIds == {Key(CMS), Key(SVC), Key(SVCH), Key(SECU), Key(SECT)}

RuleLiveAt(k, scenario) ==
    CASE scenario = 1 -> Absent
      [] scenario = 2 /\ k = Key(CMS) ->
           [Stored(CreatePayload(CMS)) EXCEPT
               !.data = 2, !.owners = {[name |-> "other", controller |-> FALSE]}]
      [] scenario = 3 /\ k = Key(CMS) ->
           [Stored(CreatePayload(CMS)) EXCEPT
               !.owners = {[name |-> "installation", controller |-> FALSE],
                           [name |-> "other", controller |-> TRUE]}]
      [] scenario = 2 /\ k = Key(SVC) ->
           [Stored(SVC) EXCEPT !.data = 2, !.clusterIP = "10.0.0.7"]
      [] scenario = 3 /\ k = Key(SVC) -> Stored(SVC)
      [] scenario = 2 /\ k = Key(SVCH) ->
           [Stored(CreatePayload(SVCH)) EXCEPT
               !.clusterIP = "10.0.0.8",
               !.owners = {[name |-> "other", controller |-> FALSE]}]
      [] scenario = 3 /\ k = Key(SVCH) -> [Stored(CreatePayload(SVCH)) EXCEPT !.data = 2]
      [] scenario = 2 /\ k = Key(SECU) -> [Stored(SECU) EXCEPT !.data = 2]
      [] scenario = 3 /\ k = Key(SECU) ->
           [Stored(SECU) EXCEPT !.stype = "kubernetes.io/tls"]
      [] scenario = 2 /\ k = Key(SECT) -> [Stored(SECT) EXCEPT !.stype = "Opaque"]
      [] scenario = 3 /\ k = Key(SECT) -> [Stored(SECT) EXCEPT !.data = 2]

InitRules ==
    /\ \E sc \in Scenarios :
          cluster = [k \in IdsOf({6, 7, 8}) |->
                        IF k \in RuleIds THEN RuleLiveAt(k, sc) ELSE Absent]
    /\ wseq = [k \in Ids |-> IF cluster[k] = Absent THEN 0 ELSE cluster[k].rv]
    /\ nsTerm = [n \in Namespaces |-> FALSE]
    /\ install = "TLS_AES_128_GCM_SHA256"
    /\ cache = [k \in Ids |-> NoEntry]
    /\ eng = Idle
    /\ calls = 0
    /\ env = 0
    /\ hs = <<>>
    /\ pipe = NilObj
    /\ mon = NilObj

NextRules ==
    \/ \E c \in {6, 7, 8} : Call(c, TRUE, TRUE)
    \/ Get
    \/ GetNamespace
    \/ Create
    \/ Update
    \/ DeleteGet
    \/ Delete
    \/ \E k \in RuleIds, spec \in BOOLEAN : ExtModify(k, spec)

SpecRules == InitRules /\ [][NextRules]_vars

----------------------------------------------------------------------------
(* Components of every kind whose labels and annotations mergeState        *)
(* treats in a way of its own, on a cluster that holds nothing or holds    *)
(* the objects with labels and annotations others have written; in one     *)
(* case another actor has put the multiple-owners label on a role binding. *)
(* The second Kibana is on the cluster as a create of the desired object   *)
(* left it, its pod-template annotations read back as nil.                 *)

MergeLiveAt(k, scenario) ==
    IF k = Key(RB) /\ scenario = 2
    THEN [LiveAt(k, scenario) EXCEPT !.labels = Put(@, MultipleOwnersLabel, "true")]
    ELSE IF k = Key(KBE) /\ scenario # 1
    THEN [Stored(mutateSpec(KBE, "linux")) EXCEPT !.status = 5]
    ELSE IF k \in KindIds THEN LiveAt(k, scenario)
    ELSE IF k \in RuleIds THEN RuleLiveAt(k, scenario)
    ELSE Absent

InitMerge ==
    /\ \E sc \in Scenarios : cluster = [k \in IdsOf({4, 5, 16}) |-> MergeLiveAt(k, sc)]
    /\ wseq = [k \in Ids |-> IF cluster[k] = Absent THEN 0 ELSE cluster[k].rv]
    /\ nsTerm = [n \in Namespaces |-> FALSE]
    /\ install = "TLS_AES_128_GCM_SHA256"
    /\ cache = [k \in Ids |-> NoEntry]
    /\ eng = Idle
    /\ calls = 0
    /\ env = 0
    /\ hs = <<>>
    /\ pipe = NilObj
    /\ mon = NilObj

NextMerge ==
    \/ \E c \in {4, 5, 16} : Call(c, TRUE, TRUE)
    \/ GetInstallation
    \/ Get
    \/ GetNamespace
    \/ Create
    \/ Update
    \/ DeleteGet
    \/ Delete

SpecMerge == InitMerge /\ [][NextMerge]_vars

----------------------------------------------------------------------------
(* A component of workloads of the four kinds the status manager is told   *)
(* of, two of them Deployments, with a ConfigMap among them and a          *)
(* DaemonSet to delete, next to a component of no workload; the handler in *)
(* either mode, on a cluster that holds nothing or holds the workloads,    *)
(* in a namespace that may begin to terminate.                             *)

WorkloadIds == {Key(DEPR), Key(DSET), Key(DEP), Key(STS), Key(CJ), Key(DSO)}

\* Scenario 2: the workloads as an earlier run left them, one Deployment
\* and the StatefulSet since changed by others.  Scenario 3: only the
\* second half of the list, and the DaemonSet to delete.
WorkloadLiveAt(k, scenario) ==
    CASE scenario = 2 /\ k = Key(DEPR) -> [Stored(mutateSpec(DEPR, "linux")) EXCEPT !.data = 2]
      [] scenario = 2 /\ k = Key(DSET) -> Stored(mutateSpec(DSET, "linux"))
      [] scenario = 2 /\ k = Key(STS) -> [Stored(mutateSpec(STS, "linux")) EXCEPT !.data = 2]
      [] scenario \in {2, 3} /\ k = Key(DEP) -> Stored(mutateSpec(DEP, "linux"))
      [] scenario \in {2, 3} /\ k = Key(CJ) -> Stored(mutateSpec(CJ, "linux"))
      [] scenario = 3 /\ k = Key(DSO) -> Stored(mutateSpec(DSO, "linux"))
      [] OTHER -> Absent

InitWorkloads ==
    /\ \E sc \in Scenarios : cluster = [k \in IdsOf({2, 17}) |-> WorkloadLiveAt(k, sc)]
    /\ wseq = [k \in Ids |-> IF cluster[k] = Absent THEN 0 ELSE cluster[k].rv]
    /\ nsTerm = [n \in Namespaces |-> FALSE]
    /\ install = "TLS_AES_128_GCM_SHA256"
    /\ cache = [k \in Ids |-> NoEntry]
    /\ eng = Idle
    /\ calls = 0
    /\ env = 0
    /\ hs = <<>>
    /\ pipe = NilObj
    /\ mon = NilObj

NextWorkloads ==
    \/ SetCreateOnly
    \/ \E c \in {2, 17} : Call(c, TRUE, TRUE)
    \/ GetInstallation
    \/ Get
    \/ GetNamespace
    \/ Create
    \/ Update
    \/ DeleteGet
    \/ Delete
    \/ \E n \in Namespaces : ExtTerminate(n)

SpecWorkloads == InitWorkloads /\ [][NextWorkloads]_vars

----------------------------------------------------------------------------
(* Components of Jobs and of policy resources, on a cluster that holds     *)
(* nothing, or holds the objects in a form mergeState tells apart.         *)

PolicyIds == {Key(JOBA), Key(JOBC), Key(JOBE), Key(NP), Key(TIER)}

PolicyLiveAt(k, scenario) ==
    CASE scenario = 1 -> Absent
      [] scenario = 2 /\ k = Key(JOBA) ->
           [Stored(mutateSpec(JOBA, "linux")) EXCEPT !.tplAnnots = {<<"hash", "0">>}]
      [] scenario = 3 /\ k = Key(JOBA) ->
           [Stored(mutateSpec(JOBA, "linux")) EXCEPT
               !.data = 2, !.containers = <<[@[1] EXCEPT !.pullPolicy = "Always"]>>]
      [] scenario = 2 /\ k = Key(JOBC) ->
           [Stored(mutateSpec(JOBC, "linux")) EXCEPT !.containers = <<@[1]>>]
      [] scenario = 3 /\ k = Key(JOBC) ->
           [Stored(mutateSpec(JOBC, "linux")) EXCEPT
               !.containers = <<@[1], [@[2] EXCEPT !.image = "side0"]>>]
      [] scenario = 2 /\ k = Key(JOBE) -> Stored(mutateSpec(JOBE, "linux"))
      [] scenario = 3 /\ k = Key(JOBE) ->
           [Stored(mutateSpec(JOBE, "linux")) EXCEPT !.data = 2]
      [] scenario = 2 /\ k = Key(NP) -> [Stored(NP) EXCEPT !.data = 2]
      [] scenario = 3 /\ k = Key(NP) ->
           [Stored(NP) EXCEPT !.labels = {<<"app", "old">>}, !.annots = {<<"note", "1">>}]
      [] scenario = 2 /\ k = Key(TIER) -> Stored(TIER)
      [] scenario = 3 /\ k = Key(TIER) -> [Stored(TIER) EXCEPT !.data = 2]

InitPolicies ==
    /\ \E sc \in Scenarios :
          cluster = [k \in IdsOf({9, 10}) |->
                        IF k \in PolicyIds THEN PolicyLiveAt(k, sc) ELSE Absent]
    /\ wseq = [k \in Ids |-> IF cluster[k] = Absent THEN 0 ELSE cluster[k].rv]
    /\ nsTerm = [n \in Namespaces |-> FALSE]
    /\ install = "TLS_AES_128_GCM_SHA256"
    /\ cache = [k \in Ids |-> NoEntry]
    /\ eng = Idle
    /\ calls = 0
    /\ env = 0
    /\ hs = <<>>
    /\ pipe = NilObj
    /\ mon = NilObj

NextPolicies ==
    \/ \E c \in {9, 10} : Call(c, TRUE, TRUE)
    \/ Get
    \/ GetNamespace
    \/ Create
    \/ Update
    \/ DeleteGet
    \/ Delete
    \/ \E k \in PolicyIds, spec \in BOOLEAN : ExtModify(k, spec)

SpecPolicies == InitPolicies /\ [][NextPolicies]_vars

----------------------------------------------------------------------------
(* A component of two Secrets on a cluster where a user has put the ignore *)
(* annotation on them, with the handler in either mode.                    *)

IgnoredIds == {Key(SECU), Key(SECT)}

Ignored(o) == [o EXCEPT !.annots = Put(@, IgnoreAnnotation, "true")]

\* Scenario 2: a Secret of another type, ignored, and one with other data,
\* not ignored.  Scenario 3: a Secret of another type whose annotation does
\* not say "true", and an ignored one with other data.
IgnoredLiveAt(k, scenario) ==
    CASE scenario = 1 -> Absent
      [] scenario = 2 /\ k = Key(SECU) ->
           Ignored([Stored(SECU) EXCEPT !.stype = "kubernetes.io/tls"])
      [] scenario = 2 /\ k = Key(SECT) -> [Stored(SECT) EXCEPT !.data = 2]
      [] scenario = 3 /\ k = Key(SECU) ->
           [Stored(SECU) EXCEPT
               !.stype = "kubernetes.io/tls", !.annots = {<<IgnoreAnnotation, "false">>}]
      [] scenario = 3 /\ k = Key(SECT) -> Ignored([Stored(SECT) EXCEPT !.data = 2])

InitIgnored ==
    /\ \E sc \in Scenarios :
          cluster = [k \in IdsOf({8}) |->
                        IF k \in IgnoredIds THEN IgnoredLiveAt(k, sc) ELSE Absent]
    /\ wseq = [k \in Ids |-> IF cluster[k] = Absent THEN 0 ELSE cluster[k].rv]
    /\ nsTerm = [n \in Namespaces |-> FALSE]
    /\ install = "TLS_AES_128_GCM_SHA256"
    /\ cache = [k \in Ids |-> NoEntry]
    /\ eng = Idle
    /\ calls = 0
    /\ env = 0
    /\ hs = <<>>
    /\ pipe = NilObj
    /\ mon = NilObj

NextIgnored ==
    \/ SetCreateOnly
    \/ Call(8, TRUE, TRUE)
    \/ Get
    \/ GetNamespace
    \/ Create
    \/ Update
    \/ DeleteGet
    \/ Delete
    \/ \E k \in IgnoredIds, spec \in BOOLEAN : ExtModify(k, spec)

SpecIgnored == InitIgnored /\ [][NextIgnored]_vars

----------------------------------------------------------------------------
(* The handler when every API call it makes returns: a call that is under  *)
(* way is always answered, with a result or with an error, while another   *)
(* actor keeps writing to an object it works on.  The component has two    *)
(* desired objects and one obsolete one.                                   *)

\* One API call of the handler returns.
ApiCallReturns ==
    \/ Get
    \/ GetNamespace
    \/ Create
    \/ Update
    \/ DeleteGet
    \/ Delete

NextReturning ==
    \/ Call(2, TRUE, TRUE)
    \/ Get
    \/ GetNamespace
    \/ Create
    \/ Update
    \/ DeleteGet
    \/ Delete
    \/ \E spec \in BOOLEAN : ExtModify(Key(CM), spec)

SpecReturning == Init /\ [][NextReturning]_vars /\ WF_vars(ApiCallReturns)

----------------------------------------------------------------------------
(* Two handlers that run CreateOrUpdateOrDelete at the same time, each on  *)
(* its own goroutine, for a component whose one desired object is the same *)
(* ConfigMap.  They share the cluster and dCache.  One step is one API     *)
(* call or one call of dCache, each atomic; the code between them is local *)
(* to the handler.                                                         *)

Handlers == {1, 2}

\* The object createOrUpdateObject works on: the caller's object after the
\* owner reference and the mutation steps.
HObj == mutateSpec(setOwner(Idle.cr, CM).obj, "any")

HKey == Key(CM)

\* An update of the live object with the desired state merged into it would
\* change nothing.
CarriesDesired(live) ==
    /\ live # Absent
    /\ updated(live, mergeState(HObj, live), 0) = live

HandlerIdle ==
    [pc |-> "idle", n |-> 0, retried |-> FALSE, cur |-> NilObj, mobj |-> NilObj,
     gen |-> 0, result |-> "none", skipped |-> FALSE, seen |-> FALSE]

\* return err from CreateOrUpdateOrDelete
HReturn(s, err) == [s EXCEPT !.pc = "idle", !.result = err]

\* The object on the cluster is now live: every handler that has read the
\* object in its current attempt notes whether the desired state is there.
Noted(f, live) ==
    [g \in DOMAIN f |->
        [f[g] EXCEPT !.seen = @ \/ (f[g].pc \notin {"idle", "get"}
                                      /\ CarriesDesired(live))]]

InitConcurrent ==
    /\ \E o \in {Absent, Stored(CM), [Stored(CM) EXCEPT !.data = 2]} :
          cluster = [k \in {HKey} |-> o]
    /\ wseq = [k \in Ids |-> IF cluster[k] = Absent THEN 0 ELSE cluster[k].rv]
    /\ nsTerm = [n \in Namespaces |-> FALSE]
    /\ install = "TLS_AES_128_GCM_SHA256"
    /\ cache = [k \in Ids |-> NoEntry]
    /\ eng = Idle
    /\ calls = 0
    /\ env = 0
    /\ hs = [h \in Handlers |-> HandlerIdle]
    /\ pipe = NilObj
    /\ mon = NilObj

\* CreateOrUpdateOrDelete is called on handler h.
HCall(h) ==
    /\ hs[h].pc = "idle"
    /\ hs[h].n < MaxCalls
    /\ hs' = [hs EXCEPT ![h] = [HandlerIdle EXCEPT !.pc = "get", !.n = hs[h].n + 1]]
    /\ UNCHANGED <<cluster, wseq, nsTerm, install, cache, eng, calls, env, pipe, mon>>

\* createOrUpdateObject: client.Get, then mergeState on what it read.
HGet(h) ==
    /\ hs[h].pc = "get"
    /\ LET cur == cluster[HKey] IN
       hs' = [hs EXCEPT ![h] =
                IF cur = Absent THEN [@ EXCEPT !.pc = "uncache", !.cur = Absent]
                ELSE IF IgnoreObject(cur) THEN HReturn(@, "nil")
                ELSE [@ EXCEPT !.pc = "needs", !.cur = cur,
                               !.mobj = mergeState(HObj, cur),
                               !.seen = CarriesDesired(cur)]]
    /\ UNCHANGED <<cluster, wseq, nsTerm, install, cache, eng, calls, env, pipe, mon>>

\* dCache.delete after a Get or an Update that answered NotFound.
HCacheDelete(h) ==
    /\ hs[h].pc \in {"uncache", "uncacheErr"}
    /\ cache' = cacheDelete(cache, HKey)
    /\ hs' = [hs EXCEPT ![h] =
                IF @.pc = "uncache" THEN [@ EXCEPT !.pc = "nsget"]
                ELSE HReturn(@, "NotFound")]
    /\ UNCHANGED <<cluster, wseq, nsTerm, install, eng, calls, env, pipe, mon>>

\* createOrUpdateObject: the lookup of the Namespace before the create.
HGetNamespace(h) ==
    /\ hs[h].pc = "nsget"
    /\ hs' = [hs EXCEPT ![h] =
                IF HObj.ns \in DOMAIN nsTerm /\ nsTerm[HObj.ns] THEN HReturn(@, "nil")
                ELSE [@ EXCEPT !.pc = "create", !.mobj = CreatePayload(HObj)]]
    /\ UNCHANGED <<cluster, wseq, nsTerm, install, cache, eng, calls, env, pipe, mon>>

\* componentHandler.create: client.Create.
HCreate(h) ==
    /\ hs[h].pc = "create"
    /\ LET err == createError(cluster[HKey], hs[h].mobj) IN
       IF err = "nil"
       THEN /\ cluster' = [cluster EXCEPT ![HKey] = created(hs[h].mobj, wseq[HKey])]
            /\ wseq' = [wseq EXCEPT ![HKey] = @ + 1]
            /\ hs' = Noted([hs EXCEPT ![h] =
                               [@ EXCEPT !.pc = "cacheset", !.gen = cluster'[HKey].gen]],
                           cluster'[HKey])
       ELSE /\ hs' = [hs EXCEPT ![h] = HReturn(@, err)]
            /\ UNCHANGED <<cluster, wseq>>
    /\ UNCHANGED <<nsTerm, install, cache, eng, calls, env, pipe, mon>>

\* componentHandler.update: needsUpdate, which reads dCache.
HNeedsUpdate(h) ==
    /\ hs[h].pc = "needs"
    /\ hs' = [hs EXCEPT ![h] =
                IF needsUpdate(cache, @.mobj) THEN [@ EXCEPT !.pc = "update"]
                ELSE HReturn([@ EXCEPT !.skipped = TRUE], "nil")]
    /\ UNCHANGED <<cluster, wseq, nsTerm, install, cache, eng, calls, env, pipe, mon>>

\* (mutant) the object is handed to dCache whether client.Update succeeded
\* or not.
HUpdateCachingFailures(h) ==
    /\ hs[h].pc = "update"
    /\ LET err == updateError(cluster[HKey], hs[h].mobj) IN
       CASE err = "nil" ->
              /\ cluster' = [cluster EXCEPT ![HKey] = updated(@, hs[h].mobj, wseq[HKey])]
              /\ wseq' = [wseq EXCEPT ![HKey] =
                             IF cluster'[HKey] = cluster[HKey] THEN @ ELSE @ + 1]
              /\ hs' = Noted([hs EXCEPT ![h] =
                                 [@ EXCEPT !.pc = "cacheset",
                                           !.gen = cluster'[HKey].gen]],
                             cluster'[HKey])
         [] OTHER ->
              /\ hs' = [hs EXCEPT ![h] = [@ EXCEPT !.pc = "cacheset", !.gen = hs[h].mobj.gen]]
              /\ UNCHANGED <<cluster, wseq>>
    /\ UNCHANGED <<nsTerm, install, cache, eng, calls, env, pipe, mon>>

\* componentHandler.update: client.Update; a first conflict starts the
\* attempt again (conflictRetry).
HUpdate(h) ==
    /\ hs[h].pc = "update"
    /\ LET err == updateError(cluster[HKey], hs[h].mobj) IN
       CASE err = "nil" ->
              /\ cluster' = [cluster EXCEPT ![HKey] = updated(@, hs[h].mobj, wseq[HKey])]
              /\ wseq' = [wseq EXCEPT ![HKey] =
                             IF cluster'[HKey] = cluster[HKey] THEN @ ELSE @ + 1]
              /\ hs' = Noted([hs EXCEPT ![h] =
                                 [@ EXCEPT !.pc = "cacheset",
                                           !.gen = cluster'[HKey].gen]],
                             cluster'[HKey])
         [] err = "NotFound" ->
              /\ hs' = [hs EXCEPT ![h] = [@ EXCEPT !.pc = "uncacheErr"]]
              /\ UNCHANGED <<cluster, wseq>>
         [] err = "Conflict" /\ ~hs[h].retried ->
              /\ hs' = [hs EXCEPT ![h] = [@ EXCEPT !.pc = "get", !.retried = TRUE]]
              /\ UNCHANGED <<cluster, wseq>>
         [] OTHER ->
              /\ hs' = [hs EXCEPT ![h] = HReturn(@, err)]
              /\ UNCHANGED <<cluster, wseq>>
    /\ UNCHANGED <<nsTerm, install, cache, eng, calls, env, pipe, mon>>

\* dCache.set after a successful create or update, with the copy taken
\* before the call and the generation the server answered.
HCacheSet(h) ==
    /\ hs[h].pc = "cacheset"
    /\ cache' = cacheSet(cache, hs[h].mobj, hs[h].gen)
    /\ hs' = [hs EXCEPT ![h] = HReturn(@, "nil")]
    /\ UNCHANGED <<cluster, wseq, nsTerm, install, eng, calls, env, pipe, mon>>

\* Another actor modifies the ConfigMap while a handler is running.
HExtModify(spec) ==
    /\ \E h \in Handlers : hs[h].pc # "idle"
    /\ env < MaxEnv
    /\ cluster[HKey] # Absent
    /\ cluster' = [cluster EXCEPT ![HKey] =
                      IF spec
                      THEN [@ EXCEPT !.data = wseq[HKey] + 10, !.gen = @ + 1,
                                     !.rv = wseq[HKey] + 1]
                      ELSE [@ EXCEPT !.labels = Put(@, "ext", "2"),
                                     !.rv = wseq[HKey] + 1]]
    /\ wseq' = [wseq EXCEPT ![HKey] = @ + 1]
    /\ env' = env + 1
    /\ hs' = Noted(hs, cluster'[HKey])
    /\ UNCHANGED <<nsTerm, install, cache, eng, calls, pipe, mon>>

\* Another actor deletes the ConfigMap while a handler is running.
HExtDelete ==
    /\ \E h \in Handlers : hs[h].pc # "idle"
    /\ env < MaxEnv
    /\ cluster[HKey] # Absent
    /\ cluster' = [cluster EXCEPT ![HKey] = Absent]
    /\ env' = env + 1
    /\ UNCHANGED <<wseq, nsTerm, install, cache, eng, calls, hs, pipe, mon>>

NextConcurrent ==
    \/ \E h \in Handlers : HCall(h)
    \/ \E h \in Handlers : HGet(h)
    \/ \E h \in Handlers : HCacheDelete(h)
    \/ \E h \in Handlers : HGetNamespace(h)
    \/ \E h \in Handlers : HCreate(h)
    \/ \E h \in Handlers : HNeedsUpdate(h)
    \/ \E h \in Handlers : HUpdate(h)
    \/ \E h \in Handlers : HCacheSet(h)
    \/ \E spec \in BOOLEAN : HExtModify(spec)
    \/ HExtDelete

SpecConcurrent == InitConcurrent /\ [][NextConcurrent]_vars

----------------------------------------------------------------------------
(* The mutation steps of createOrUpdateObject on their own: an object as a *)
(* renderer hands it over, the handler's owner, the OS type of the         *)
(* component and the cipher suites of the Installation are drawn from      *)
(* small sets, and the steps are applied to the object one at a time, in   *)
(* any order, or all in the order of the code.                             *)

\* A Deployment that has two containers: the second has its pull policy, its
\* cipher variable and parts of its probes set, and mounts one volume twice.
DEP2 ==
    [NewObj("Deployment", "n1", "dep2") EXCEPT
        !.labels = {<<"k8s-app", "other">>},
        !.tplLabels = {<<"k8s-app", "">>, <<"app.kubernetes.io/name", "x">>},
        !.hasSelector = TRUE, !.selector = {<<"app", "dep2">>},
        !.nodeSel = {<<"kubernetes.io/os", "windows">>, <<"zone", "a">>},
        !.containers =
            <<[NewContainer("img1") EXCEPT
                 !.mounts = <<3, 1, 3, 2>>,
                 !.rp = [NoProbe EXCEPT !.present = TRUE, !.ps = 10]],
              [NewContainer("img2") EXCEPT
                 !.pullPolicy = "Always",
                 !.env = <<<<"A", "1">>, <<TLS_CIPHERS_ENV_VAR_NAME, "old">>>>,
                 !.lp = [NoProbe EXCEPT !.present = TRUE, !.ts = 1, !.ft = 9],
                 !.rp = [NoProbe EXCEPT !.present = TRUE]]>>,
        !.volumes = <<3, 2, 2, 1>>]

DS ==
    [NewObj("DaemonSet", "n1", "ds") EXCEPT
        !.containers = <<[NewContainer("img1") EXCEPT
                            !.mounts = <<2, 1>>,
                            !.lp = [NoProbe EXCEPT !.present = TRUE]],
                         NewContainer("img3")>>,
        !.volumes = <<1, 3, 2>>]

\* An object that names several owners, and one another controller owns.
CMShared == [CM EXCEPT !.labels = {<<MultipleOwnersLabel, "true">>}]

CMOwned == [CM EXCEPT !.owners = {[name |-> "other", controller |-> TRUE]}]

UIS == NewObj("UISettings", "", "uis")

PROM ==
    [NewObj("Prometheus", "n1", "prom") EXCEPT
        !.containers = <<[NewContainer("p") EXCEPT
                            !.mounts = <<2, 1>>,
                            !.lp = [NoProbe EXCEPT !.present = TRUE]]>>]

PipeObjects == {DEP, DEP2, DS, JOB, ES, CM, CMShared, CMOwned, CRB, UIS, PROM}

PipeOwners ==
    {NoCR, Idle.cr, [name |-> "logstorage", ns |-> "n1"], [name |-> "far", ns |-> "n2"]}

PipeOSTypes == {"any", "linux", "windows"}

PipeCiphers == {"", "TLS_AES_128_GCM_SHA256"}

\* The steps in the order createOrUpdateObject takes them; an error of the
\* owner step ends the function before the others.
Pipeline(cr, o, osType, v) ==
    LET a == setOwner(cr, o) IN
    IF a.err # "nil" THEN a
    ELSE [err |-> "nil", obj |-> injectTLSCiphers(mutateSpec(a.obj, osType), v)]

InitPipeline ==
    /\ cluster = [k \in {Key(o) : o \in PipeObjects} |-> Absent]
    /\ wseq = [k \in Ids |-> 0]
    /\ nsTerm = [n \in Namespaces |-> FALSE]
    /\ \E v \in PipeCiphers : install = v
    /\ cache = [k \in Ids |-> NoEntry]
    /\ eng = Idle
    /\ calls = 0
    /\ env = 0
    /\ hs = <<>>
    /\ mon = NilObj
    /\ \E o \in PipeObjects, cr \in PipeOwners, os \in PipeOSTypes :
          pipe = [input |-> o, obj |-> o, cr |-> cr, osType |-> os,
                  err |-> "nil", applied |-> {}]

\* One step has run on the object.
Stepped(name, o, err) ==
    [pipe EXCEPT !.obj = o, !.err = err, !.applied = @ \cup {name}]

ApplySetOwner ==
    /\ "owner" \notin pipe.applied
    /\ LET a == setOwner(pipe.cr, pipe.obj) IN pipe' = Stepped("owner", a.obj, a.err)
    /\ UNCHANGED <<cluster, wseq, nsTerm, install, cache, eng, calls, env, hs, mon>>

ApplyOSSchedulingRestrictions ==
    /\ "os" \notin pipe.applied
    /\ pipe' = Stepped("os", ensureOSSchedulingRestrictions(pipe.obj, pipe.osType), pipe.err)
    /\ UNCHANGED <<cluster, wseq, nsTerm, install, cache, eng, calls, env, hs, mon>>

ApplyImagePullPolicy ==
    /\ "pullPolicy" \notin pipe.applied
    /\ pipe' = Stepped("pullPolicy", setImagePullPolicy(pipe.obj), pipe.err)
    /\ UNCHANGED <<cluster, wseq, nsTerm, install, cache, eng, calls, env, hs, mon>>

ApplyOrderVolumes ==
    /\ "volumes" \notin pipe.applied
    /\ pipe' = Stepped("volumes", orderVolumes(pipe.obj), pipe.err)
    /\ UNCHANGED <<cluster, wseq, nsTerm, install, cache, eng, calls, env, hs, mon>>

ApplyOrderVolumeMounts ==
    /\ "mounts" \notin pipe.applied
    /\ pipe' = Stepped("mounts", orderVolumeMounts(pipe.obj), pipe.err)
    /\ UNCHANGED <<cluster, wseq, nsTerm, install, cache, eng, calls, env, hs, mon>>

ApplyProbeTimeouts ==
    /\ "probes" \notin pipe.applied
    /\ pipe' = Stepped("probes", setProbeTimeouts(pipe.obj), pipe.err)
    /\ UNCHANGED <<cluster, wseq, nsTerm, install, cache, eng, calls, env, hs, mon>>

ApplyStandardSelectorAndLabels ==
    /\ "labels" \notin pipe.applied
    /\ pipe' = Stepped("labels", setStandardSelectorAndLabels(pipe.obj), pipe.err)
    /\ UNCHANGED <<cluster, wseq, nsTerm, install, cache, eng, calls, env, hs, mon>>

ApplyTLSCiphers ==
    /\ "ciphers" \notin pipe.applied
    /\ pipe' = Stepped("ciphers", injectTLSCiphers(pipe.obj, install), pipe.err)
    /\ UNCHANGED <<cluster, wseq, nsTerm, install, cache, eng, calls, env, hs, mon>>

\* createOrUpdateObject from its start to ensureTLSCiphers.
ApplyPipeline ==
    /\ pipe.applied = {}
    /\ LET a == Pipeline(pipe.cr, pipe.obj, pipe.osType, install) IN
       pipe' = Stepped("pipeline", a.obj, a.err)
    /\ UNCHANGED <<cluster, wseq, nsTerm, install, cache, eng, calls, env, hs, mon>>

NextPipeline ==
    \/ ApplySetOwner
    \/ ApplyOSSchedulingRestrictions
    \/ ApplyImagePullPolicy
    \/ ApplyOrderVolumes
    \/ ApplyOrderVolumeMounts
    \/ ApplyProbeTimeouts
    \/ ApplyStandardSelectorAndLabels
    \/ ApplyTLSCiphers
    \/ ApplyPipeline

SpecPipeline == InitPipeline /\ [][NextPipeline]_vars

----------------------------------------------------------------------------
(* What the claims are stated over: eng.log holds the API calls of the     *)
(* current (or, when idle, the last) invocation in the order they were     *)
(* made, eng.slog the calls to the status manager.                         *)

Entries == DOMAIN eng.log

IsWrite(e) == e.op \in {"Create", "Update", "Delete"}

\* The position of identity k in the caller's list.
PosIn(list, k) == CHOOSE j \in DOMAIN list : Key(list[j]) = k

ListOf(e) == IF e.phase = "desired" THEN Desired(eng) ELSE Obsolete(eng)

\* An API answer that is neither AlreadyExists nor a first conflict nor one
\* the code looks past.
FatalEntry(e) ==
    \/ e.res \in {"Err", "Invalid"} /\ e.op # "GetForDelete"
    \/ e.res = "NotFound" /\ e.phase = "desired" /\ e.op \in {"Update", "Delete"}
    \/ e.res = "Conflict" /\ e.attempt = 2

\* The last invocation ran with a ready component and has returned.
Returned == eng.pc = "idle" /\ eng.comp # 0 /\ eng.ready

----------------------------------------------------------------------------
\* C1: a second call with the same component, after a successful first call
\* and with no write by anyone else in between, issues no create, update or
\* delete.
C1_SecondCallIssuesNoWrite ==
    eng.repeat => \A p \in Entries : ~IsWrite(eng.log[p])

----------------------------------------------------------------------------
\* C2: a first conflict on an object re-runs the attempt for that object
\* once; a conflict in the second attempt is returned; no object is ever
\* attempted a third time.
C2_ConflictRetriedOnce ==
    LET n == Len(eng.log) IN
    /\ \A p \in Entries : eng.log[p].attempt <= 2
    /\ (n > 0 /\ eng.log[n].res = "Conflict") =>
          IF eng.log[n].attempt = 1
          THEN /\ eng.pc \in {"tls", "get"}
               /\ eng.attempt = 2
               /\ eng.i = eng.log[n].i
               /\ eng.phase = "desired"
          ELSE eng.pc = "idle" /\ eng.result = "Conflict"

C2_Witness ==
    /\ eng.pc = "idle"
    /\ eng.result = "Conflict"
    /\ \E p, q \in Entries :
          /\ p < q
          /\ eng.log[p].res = "Conflict" /\ eng.log[p].attempt = 1
          /\ eng.log[q].res = "Conflict" /\ eng.log[q].attempt = 2
          /\ eng.log[p].key = eng.log[q].key

----------------------------------------------------------------------------
\* The last invocation ran in create-only mode and returned nil or
\* AlreadyExists.
CreateOnlyDone ==
    /\ Returned
    /\ eng.log # <<>>
    /\ eng.log[1].createOnly
    /\ eng.result \in {"nil", "AlreadyExists"}

CreateOnlyCommon ==
    /\ \A i \in DOMAIN Desired(eng) :
          \E p \in Entries :
             eng.log[p].op = "Get" /\ eng.log[p].key = Key(Desired(eng)[i])
    /\ \A p \in Entries : eng.log[p].op # "Update"
    /\ eng.result = "AlreadyExists" <=>
          \E p \in Entries :
             \/ eng.log[p].op = "Get" /\ eng.log[p].res = "nil"
             \/ eng.log[p].op = "Create" /\ eng.log[p].res = "AlreadyExists"

\* C3 as stated: in create-only mode, with no other error, every desired
\* object that is absent is created, none that exists is updated, the whole
\* list is processed, and AlreadyExists is returned exactly when an object
\* existed.
C3_CreateOnlyCreatesEveryAbsent ==
    CreateOnlyDone =>
       /\ CreateOnlyCommon
       /\ \A p \in Entries :
             (eng.log[p].op = "Get" /\ eng.log[p].res = "NotFound") =>
                \E q \in Entries :
                   /\ q > p
                   /\ eng.log[q].key = eng.log[p].key
                   /\ eng.log[q].op = "Create"

\* C3 amended: ... every desired object that is absent is created unless its
\* namespace is terminating (then it is skipped without error) ...
C3_CreateOnlyCreatesAbsentUnlessTerminating ==
    CreateOnlyDone =>
       /\ CreateOnlyCommon
       /\ \A p \in Entries :
             (eng.log[p].op = "Get" /\ eng.log[p].res = "NotFound") =>
                \E q \in Entries :
                   /\ q > p
                   /\ eng.log[q].key = eng.log[p].key
                   /\ \/ eng.log[q].op = "Create"
                      \/ eng.log[q].op = "GetNamespace" /\ eng.log[q].res = "Terminating"

C3_Witness ==
    /\ CreateOnlyDone
    /\ eng.result = "AlreadyExists"
    /\ \E p \in Entries : eng.log[p].op = "Create" /\ eng.log[p].res = "nil"
    /\ \E p \in Entries : eng.log[p].op = "Get" /\ eng.log[p].res = "nil"
    /\ \E p \in Entries : eng.log[p].op = "GetNamespace" /\ eng.log[p].res = "Terminating"

----------------------------------------------------------------------------
\* C4: an invocation in create-only mode modifies no resource that exists:
\* no update call and no delete call reaches one, obsolete objects included.
C4_CreateOnlyNeverModifies ==
    \A p \in Entries :
       eng.log[p].createOnly =>
          ~(eng.log[p].op \in {"Update", "Delete"} /\ eng.log[p].res = "nil")

----------------------------------------------------------------------------
\* C5: an error on a desired object that is neither AlreadyExists nor a
\* first conflict ends the invocation there: it is the last API call, it is
\* the error returned, and the status manager was not called.
C5_FailFast ==
    \A p \in Entries :
       (FatalEntry(eng.log[p]) /\ eng.log[p].phase = "desired") =>
          /\ p = Len(eng.log)
          /\ eng.pc = "idle"
          /\ eng.result = eng.log[p].res
          /\ eng.slog = <<>>

C5_Witness ==
    /\ eng.pc = "idle"
    /\ eng.result = "Err"
    /\ Len(Obsolete(eng)) > 0
    /\ eng.log # <<>>
    /\ LET e == eng.log[Len(eng.log)] IN
          /\ e.phase = "desired"
          /\ FatalEntry(e)
          /\ e.i < Len(Desired(eng))
          /\ eng.hasStatus

----------------------------------------------------------------------------
\* C6: once an AlreadyExists was recorded, a later fatal error of the same
\* invocation (on a desired object or on the delete of an obsolete one) is
\* the error returned.
C6_SeriousErrorWins ==
    eng.aeErr =>
       \A p \in Entries :
          FatalEntry(eng.log[p]) =>
             /\ eng.pc = "idle"
             /\ eng.result = eng.log[p].res
             /\ eng.result # "AlreadyExists"

C6_Witness ==
    /\ eng.pc = "idle"
    /\ eng.aeErr
    /\ eng.result = "Err"
    /\ \E p \in Entries : eng.log[p].phase = "obsolete" /\ FatalEntry(eng.log[p])

----------------------------------------------------------------------------
\* C7: AlreadyExists is returned only by a handler in create-only mode, and
\* only when a desired object was found to exist.
C7_AlreadyExistsOnlyInCreateOnly ==
    eng.result = "AlreadyExists" =>
       /\ eng.createOnly
       /\ \E p \in Entries : eng.log[p].op = "Get" /\ eng.log[p].res = "nil"

----------------------------------------------------------------------------
\* C8 as stated: CreateOrUpdateOrDelete never returns NotFound.
C8_NotFoundNeverReturned == eng.result # "NotFound"

\* C8 amended: NotFound is returned only when a write of a desired object
\* answered it: the update call or the delete call of its delete-and-recreate
\* (the object is gone from the cluster), or the create call (the namespace
\* of the object does not exist).  A NotFound answer to a get, to the lookup
\* of the namespace or of the installation, or to the delete of an obsolete
\* object, is never returned.
C8_NotFoundOnlyFromLostWrite ==
    /\ eng.result = "NotFound" =>
          /\ eng.pc = "idle"
          /\ eng.log # <<>>
          /\ LET e == eng.log[Len(eng.log)] IN
                /\ e.phase = "desired"
                /\ e.op \in {"Update", "Delete", "Create"}
                /\ e.res = "NotFound"
                /\ e.op \in {"Update", "Delete"} => cluster[e.key] = Absent
                /\ e.op = "Create" => e.key[2] \notin DOMAIN nsTerm
    /\ \A p \in Entries :
          (/\ eng.log[p].res = "NotFound"
           /\ \/ eng.log[p].op \in {"Get", "GetForDelete", "GetInstallation",
                                     "GetNamespace"}
              \/ eng.log[p].phase = "obsolete")
          => ~(p = Len(eng.log) /\ eng.pc = "idle" /\ eng.result = "NotFound")

\* A call returned the NotFound of the create of an object whose namespace
\* the lookup had not found, on a cluster from which another actor has
\* deleted an object the handler had written and no longer caches.
C8_Witness ==
    /\ eng.pc = "idle"
    /\ eng.result = "NotFound"
    /\ eng.log[Len(eng.log)].op = "Create"
    /\ Len(eng.log) = 3
    /\ eng.log[2].op = "GetNamespace" /\ eng.log[2].res = "NotFound"
    /\ \E k \in ExtIds : cluster[k] = Absent /\ wseq[k] > 0 /\ ~cache[k].ok

----------------------------------------------------------------------------
\* C9: a call with a component that is not ready returns nil at once and
\* changes nothing: no API call, no cache access, no status manager call.
C9_NotReadyIsNoOp ==
    [][(calls' = calls + 1 /\ ~eng'.ready) =>
          /\ eng'.pc = "idle"
          /\ eng'.result = "nil"
          /\ eng'.log = <<>>
          /\ eng'.slog = <<>>
          /\ eng'.cacheOps = 0
          /\ cluster' = cluster
          /\ wseq' = wseq
          /\ cache' = cache]_vars

C9_Witness ==
    /\ eng.comp # 0
    /\ ~eng.ready
    /\ eng.pc = "idle"
    /\ eng.result = "nil"
    /\ \E i \in DOMAIN Desired(eng) : cluster[Key(Desired(eng)[i])] = Absent
    /\ \E i \in DOMAIN Obsolete(eng) : cluster[Key(Obsolete(eng)[i])] # Absent

----------------------------------------------------------------------------
\* C10: the API calls of one invocation follow the caller's order: all
\* calls for desired object i (its retry included) come before any call for
\* object i+1, and every desired object comes before any obsolete object.
C10_CallerOrder ==
    /\ \A p, q \in Entries :
          p < q =>
             /\ eng.log[p].phase = "obsolete" => eng.log[q].phase = "obsolete"
             /\ eng.log[p].phase = eng.log[q].phase =>
                   PosIn(ListOf(eng.log[p]), eng.log[p].key)
                      <= PosIn(ListOf(eng.log[q]), eng.log[q].key)
             /\ (eng.log[p].phase = eng.log[q].phase /\ eng.log[p].key = eng.log[q].key)
                   => eng.log[p].attempt <= eng.log[q].attempt
    /\ (\E p \in Entries : eng.log[p].phase = "obsolete") =>
          \A i \in DOMAIN Desired(eng) :
             \E p \in Entries :
                eng.log[p].phase = "desired" /\ eng.log[p].key = Key(Desired(eng)[i])

C10_Witness ==
    /\ eng.pc = "idle"
    /\ eng.result = "nil"
    /\ \E p \in Entries : eng.log[p].phase = "desired" /\ eng.log[p].attempt = 2
    /\ \E p \in Entries : eng.log[p].op = "Delete" /\ eng.log[p].phase = "desired"
    /\ \E p \in Entries : eng.log[p].op = "Delete" /\ eng.log[p].phase = "obsolete"

----------------------------------------------------------------------------
\* C11: for a desired object that was not found, the answer of the namespace
\* lookup decides: a namespace that is not terminating is followed by the
\* create of that object; a terminating namespace by no create for it and no
\* error on its account; a failed lookup is the last call of the invocation,
\* its error is returned and no create is issued.
C11_NamespaceGuard ==
    \A p \in Entries :
       LET e == eng.log[p]
           last == p = Len(eng.log)
       IN e.op = "GetNamespace" =>
            /\ e.phase = "desired"
            /\ p > 1 /\ eng.log[p - 1].op = "Get" /\ eng.log[p - 1].res = "NotFound"
            /\ eng.log[p - 1].key = e.key
            /\ e.res = "nil" =>
                  IF last
                  THEN eng.pc = "create" /\ Key(eng.payload) = e.key
                  ELSE /\ eng.log[p + 1].op = "Create"
                       /\ eng.log[p + 1].key = e.key
                       /\ eng.log[p + 1].attempt = e.attempt
            /\ e.res = "Terminating" =>
                  /\ \A q \in Entries :
                        ~(q > p /\ eng.log[q].op = "Create" /\ eng.log[q].key = e.key)
                  /\ last => (eng.pc # "create"
                               /\ (eng.pc = "idle" => eng.result \in {"nil", "AlreadyExists"}))
            /\ e.res = "Err" =>
                  /\ last
                  /\ eng.pc = "idle"
                  /\ eng.result = "Err"

\* An invocation that created one object after a lookup of its live
\* namespace and then skipped the last one, whose namespace had begun to
\* terminate in between, and returned nil.
C11_Witness ==
    /\ eng.pc = "idle"
    /\ eng.result = "nil"
    /\ \E p, q \in Entries :
          /\ p < q
          /\ eng.log[p].op = "GetNamespace" /\ eng.log[p].res = "nil"
          /\ eng.log[p + 1].op = "Create" /\ eng.log[p + 1].res = "nil"
          /\ eng.log[q].op = "GetNamespace" /\ eng.log[q].res = "Terminating"
          /\ q = Len(eng.log)

----------------------------------------------------------------------------
\* The Get of a desired role binding that found it with another role
\* reference than the desired one (in a handler that is not create-only, the
\* object not marked as ignored).
RoleRefDiffers(e) ==
    /\ e.op = "Get" /\ e.res = "nil" /\ e.phase = "desired"
    /\ e.key[1] \in {"RoleBinding", "ClusterRoleBinding"}
    /\ e.cur.roleRef # ObjAt(Desired(eng), e.i).roleRef
    /\ ~e.createOnly
    /\ ~IgnoreObject(e.cur)

\* C12: after such a Get the engine looks the object up and deletes it, then
\* creates it, and never updates it; the create carries no resource version,
\* UID or creation timestamp, and the labels and annotations of the deleted
\* object merged with the desired ones.
C12_RecreateOnRoleRefChange ==
    \A p \in Entries :
       LET e == eng.log[p]
           n == Len(eng.log)
           d == ObjAt(Desired(eng), e.i)
           isCreate(c) ==
              /\ c.rv = 0 /\ c.uid = 0 /\ c.ct = 0
              /\ Key(c) = e.key
              /\ c.roleRef = d.roleRef
              /\ c.labels = MergeMaps(e.cur.labels, d.labels)
              /\ c.annots = MergeMaps(e.cur.annots, d.annots)
       IN RoleRefDiffers(e) =>
            /\ \A q \in Entries :
                  (q > p /\ eng.log[q].key = e.key /\ eng.log[q].attempt = e.attempt)
                     => eng.log[q].op # "Update"
            /\ IF p = n THEN eng.pc = "delget"
               ELSE /\ eng.log[p + 1].op = "GetForDelete" /\ eng.log[p + 1].key = e.key
                    /\ IF eng.log[p + 1].res = "NotFound"
                       THEN IF p + 1 = n
                            THEN eng.pc = "create" /\ isCreate(eng.payload)
                            ELSE /\ eng.log[p + 2].op = "Create"
                                 /\ isCreate(eng.log[p + 2].payload)
                       ELSE IF p + 1 = n THEN eng.pc = "deldel"
                       ELSE /\ eng.log[p + 2].op = "Delete" /\ eng.log[p + 2].key = e.key
                            /\ eng.log[p + 2].res = "nil" =>
                                  IF p + 2 = n
                                  THEN eng.pc = "create" /\ isCreate(eng.payload)
                                  ELSE /\ eng.log[p + 3].op = "Create"
                                       /\ isCreate(eng.log[p + 3].payload)

\* A role binding that carried another role reference, labels and
\* annotations of its own has been deleted and created again.
C12_Witness ==
    \E p \in Entries :
       /\ RoleRefDiffers(eng.log[p])
       /\ eng.log[p].cur.rv # 0
       /\ HasKey(eng.log[p].cur.annots, "note")
       /\ p + 3 \in Entries
       /\ eng.log[p + 2].op = "Delete" /\ eng.log[p + 2].res = "nil"
       /\ eng.log[p + 3].op = "Create" /\ eng.log[p + 3].res = "nil"
       /\ HasKey(eng.log[p + 3].payload.labels, "ext")
       /\ HasKey(eng.log[p + 3].payload.labels, "app")
       /\ cluster[eng.log[p].key].roleRef = "role1"

----------------------------------------------------------------------------
\* The Get of a desired Elasticsearch or Kibana that found it with the
\* desired Spec (in a handler that is not create-only, the object not marked
\* as ignored).
SpecUnchanged(e) ==
    /\ e.op = "Get" /\ e.res = "nil" /\ e.phase = "desired"
    /\ e.key[1] \in {"Elasticsearch", "Kibana"}
    /\ SpecOf(e.cur) = SpecOf(mutateSpec(ObjAt(Desired(eng), e.i),
                                         eng.osType))
    /\ ~e.createOnly
    /\ ~IgnoreObject(e.cur)

\* C13: after such a Get no update call is made for the object, whether
\* dCache holds its identity or not.
C13_NoUpdateForUnchangedSpec ==
    \A p \in Entries :
       SpecUnchanged(eng.log[p]) =>
          IF p = Len(eng.log) THEN eng.pc # "update"
          ELSE ~(eng.log[p + 1].op = "Update" /\ eng.log[p + 1].key = eng.log[p].key)

----------------------------------------------------------------------------
\* C14: right after a successful create or update, needsUpdate of the object
\* that was written is false; and whenever the object on the cluster has a
\* higher generation than the cached one, needsUpdate of the object as read
\* from the cluster is true.
C14_CacheCorrectness ==
    [][/\ (/\ Len(eng'.log) = Len(eng.log) + 1
           /\ eng'.log[Len(eng'.log)].op \in {"Create", "Update"}
           /\ eng'.log[Len(eng'.log)].res = "nil")
          => ~needsUpdate(cache', eng'.log[Len(eng'.log)].payload)
       /\ \A k \in Ids :
             (cache'[k].ok /\ cluster'[k] # Absent /\ cache'[k].gen < cluster'[k].gen)
                => needsUpdate(cache', cluster'[k])]_vars

----------------------------------------------------------------------------
\* C15: a desired Deployment found on the cluster is never deleted or
\* created again, and the update sent for it carries the replica count of
\* the cluster's object when the desired one names none, the desired count
\* otherwise.
C15_ReplicasPreserved ==
    \A p \in Entries :
       LET e == eng.log[p]
           d == ObjAt(Desired(eng), e.i)
           want == IF d.replicas = 0 THEN e.cur.replicas ELSE d.replicas
       IN (/\ e.op = "Get" /\ e.res = "nil" /\ e.phase = "desired"
           /\ e.key[1] = "Deployment"
           /\ ~e.createOnly /\ ~IgnoreObject(e.cur)) =>
             /\ \A q \in Entries :
                   (q > p /\ eng.log[q].key = e.key /\ eng.log[q].attempt = e.attempt)
                      => /\ eng.log[q].op = "Update"
                         /\ eng.log[q].payload.replicas = want
             /\ p = Len(eng.log) =>
                   \/ eng.pc = "update" /\ eng.payload.replicas = want
                   \/ eng.pc # "update" /\ eng.i # e.i
                   \/ eng.pc = "idle"

\* An invocation has updated a Deployment that names no replica count and
\* one that names its own, both found with three replicas.
C15_Witness ==
    /\ eng.pc = "idle"
    /\ eng.result = "nil"
    /\ \E p, q \in Entries :
          /\ eng.log[p].op = "Update" /\ eng.log[p].res = "nil"
          /\ eng.log[p].key = Key(DEP) /\ eng.log[p].payload.replicas = 3
          /\ eng.log[q].op = "Update" /\ eng.log[q].res = "nil"
          /\ eng.log[q].key = Key(DEPR) /\ eng.log[q].payload.replicas = 2
          /\ cluster[Key(DEP)].replicas = 3
          /\ cluster[Key(DEPR)].replicas = 2

----------------------------------------------------------------------------
\* C16: when the update of an object fails with a conflict and is retried,
\* dCache holds no entry for the object when the retry starts.
C16_ConflictInvalidatesCache ==
    \A p \in Entries :
       LET e == eng.log[p] IN
       (e.op = "Update" /\ e.res = "Conflict" /\ e.attempt = 1) =>
          IF p = Len(eng.log)
          THEN ~cache[e.key].ok
          ELSE ~eng.log[p + 1].cached

----------------------------------------------------------------------------
\* C17: when a create, update or delete call fails with an error whose
\* outcome is unknown, the invocation returns that error and dCache then
\* holds no entry for the object.
C17_FailedWriteInvalidatesCache ==
    \A p \in Entries :
       LET e == eng.log[p] IN
       (e.op \in {"Create", "Update", "Delete"} /\ e.res = "Err") =>
          /\ p = Len(eng.log)
          /\ eng.pc = "idle"
          /\ eng.result = "Err"
          /\ ~cache[e.key].ok

----------------------------------------------------------------------------
\* C18 as stated: whenever one of two concurrent handlers skips the update
\* because needsUpdate returned false, the object it read in that attempt
\* already carried the desired state.
C18_SkipOnlyWhenReadCarriesDesired ==
    \A h \in DOMAIN hs : hs[h].skipped => CarriesDesired(hs[h].cur)

\* C18 amended: ... the desired state has been on the cluster at or after
\* the read of that attempt: the object read carried it, or a write made
\* after the read put it there.
C18_SkipOnlyWhenDesiredWasOnCluster ==
    \A h \in DOMAIN hs : hs[h].skipped => hs[h].seen

\* A handler skipped the update of an object it had read without the
\* desired state, the other handler having written it in between.
C18_Witness ==
    \E h \in DOMAIN hs :
       /\ hs[h].skipped
       /\ ~CarriesDesired(hs[h].cur)
       /\ hs[h].seen
       /\ CarriesDesired(cluster[HKey])
       /\ \E g \in DOMAIN hs : g # h /\ hs[g].result = "nil" /\ ~hs[g].skipped

----------------------------------------------------------------------------
\* C19: applying the mutation pipeline twice to an object yields the same
\* object (and the same error) as applying it once, and so does each of its
\* steps: owner reference, OS node selector, image pull policy, volume
\* order, volume-mount order, probe defaults, standard labels and selector,
\* cipher-suite variable.
C19_PipelineIdempotent ==
    pipe # NilObj =>
       LET o == pipe.obj
           cr == pipe.cr
           os == pipe.osType
           once == Pipeline(cr, o, os, install)
       IN /\ Pipeline(cr, once.obj, os, install) = once
          /\ setOwner(cr, setOwner(cr, o).obj) = setOwner(cr, o)
          /\ ensureOSSchedulingRestrictions(ensureOSSchedulingRestrictions(o, os), os)
                = ensureOSSchedulingRestrictions(o, os)
          /\ setImagePullPolicy(setImagePullPolicy(o)) = setImagePullPolicy(o)
          /\ orderVolumes(orderVolumes(o)) = orderVolumes(o)
          /\ orderVolumeMounts(orderVolumeMounts(o)) = orderVolumeMounts(o)
          /\ setProbeTimeouts(setProbeTimeouts(o)) = setProbeTimeouts(o)
          /\ setStandardSelectorAndLabels(setStandardSelectorAndLabels(o))
                = setStandardSelectorAndLabels(o)
          /\ injectTLSCiphers(injectTLSCiphers(o, install), install)
                = injectTLSCiphers(o, install)

\* The pipeline has run once on a Deployment and changed its owner, node
\* selector, pull policy, volume and mount order, probes, labels and
\* environment.
C19_Witness ==
    /\ pipe # NilObj
    /\ pipe.applied = {"pipeline"}
    /\ pipe.err = "nil"
    /\ pipe.input.kind = "Deployment"
    /\ pipe.obj.owners # pipe.input.owners
    /\ pipe.obj.nodeSel # pipe.input.nodeSel
    /\ pipe.obj.volumes # pipe.input.volumes
    /\ pipe.obj.labels # pipe.input.labels
    /\ pipe.obj.tplLabels # pipe.input.tplLabels
    /\ \E i \in DOMAIN pipe.obj.containers :
          LET c == pipe.obj.containers[i]
              d == pipe.input.containers[i]
          IN /\ c.pullPolicy # d.pullPolicy
             /\ c.mounts # d.mounts
             /\ c.env # d.env
             /\ c.rp # d.rp

----------------------------------------------------------------------------
\* A Get that found an object another actor has written to since the
\* handler's last successful write of it, in a round that goes on to
\* needsUpdate: not in create-only mode, the object not marked to be
\* ignored, mergeState returning an object, no delete and re-create.
ReadAfterExternalWrite(e) ==
    /\ e.op = "Get" /\ e.res = "nil" /\ e.phase = "desired"
    /\ e.wrote # 0
    /\ e.cur.rv # e.wrote
    /\ ~e.createOnly
    /\ ~IgnoreObject(e.cur)
    /\ mergeState(e.obj, e.cur) # NilObj
    /\ ~needsRecreate(e.obj, e.cur)

\* C20: when another actor has modified the live object, with or without a
\* new generation, after the handler's last successful write of it, the
\* next call that reaches the object does not skip it because of the cache:
\* needsUpdate is true and the update is sent.
C20_NoStaleNegative ==
    \A p \in Entries :
       LET e == eng.log[p] IN
       ReadAfterExternalWrite(e) =>
          IF p = Len(eng.log)
          THEN eng.pc = "update" /\ eng.payload = mergeState(e.obj, e.cur)
          ELSE /\ eng.log[p + 1].op = "Update"
               /\ eng.log[p + 1].key = e.key
               /\ eng.log[p + 1].payload = mergeState(e.obj, e.cur)

\* Another actor changed a label of an object the handler had written and
\* cached, leaving its generation as it was, and the next call updated the
\* object.
C20_Witness ==
    \E p \in Entries :
       LET e == eng.log[p] IN
       /\ ReadAfterExternalWrite(e)
       /\ e.cached
       /\ HasKey(e.cur.labels, "ext")
       /\ SpecOf(e.cur) = SpecOf(e.obj)
       /\ p < Len(eng.log)
       /\ eng.log[p + 1].op = "Update"
       /\ eng.log[p + 1].res = "nil"
       /\ cluster[e.key] # Absent
       /\ cluster[e.key].rv > e.cur.rv

----------------------------------------------------------------------------
\* C21: needsUpdate answers true when dCache has no entry for the identity;
\* else true when the cached generation is below the object's generation;
\* else false when the object equals the cached snapshot; else true.  It
\* never answers false without an entry.  Stated of every step in which a
\* handler runs needsUpdate: it goes on to the update exactly when the rule
\* says true, and returns without a write otherwise.
C21_NeedsUpdateRule ==
    [][\A h \in DOMAIN hs :
          (hs[h].pc = "needs" /\ hs'[h].pc # "needs") =>
             LET e == cache[Key(hs[h].mobj)]
                 o == hs[h].mobj
                 rule == CASE ~e.ok -> TRUE
                           [] e.ok /\ e.gen < o.gen -> TRUE
                           [] e.ok /\ e.gen >= o.gen /\ e.obj = o -> FALSE
                           [] OTHER -> TRUE
             IN /\ rule => (hs'[h].pc = "update" /\ ~hs'[h].skipped)
                /\ ~rule => (hs'[h].pc = "idle" /\ hs'[h].skipped
                                /\ hs'[h].result = "nil" /\ e.ok)]_vars

\* A handler was answered false: dCache holds its object at a generation
\* that is not below the object's.
C21_Witness ==
    \E h \in DOMAIN hs :
       /\ hs[h].skipped
       /\ cache[HKey].ok
       /\ cache[HKey].obj = hs[h].mobj
       /\ cache[HKey].gen >= hs[h].mobj.gen

----------------------------------------------------------------------------
\* The round of the objsToDelete loop that follows the round of entry e, or
\* the end of the call when e belongs to the last obsolete object.
GoesOnAfter(e) ==
    IF e.i < Len(Obsolete(eng))
    THEN eng.pc = "delget" /\ eng.phase = "obsolete" /\ eng.i = e.i + 1
    ELSE eng.pc = "idle" /\ eng.result \in {"nil", "AlreadyExists"}

\* C22: each obsolete object is first fetched by identity; when the fetch
\* finds it absent no delete is sent; when it finds it present a delete is
\* sent; NotFound from the delete itself is tolerated and the loop goes on;
\* any other error of the delete ends the call and is returned.  After a
\* call that was not aborted dCache holds no entry for an obsolete identity.
C22_ObsoleteObjects ==
    /\ \A p \in Entries :
          LET e == eng.log[p]
              last == p = Len(eng.log)
          IN e.phase = "obsolete" =>
               /\ e.op \in {"GetForDelete", "Delete"}
               /\ e.key = Key(ObjAt(Obsolete(eng), e.i))
               /\ (e.op = "GetForDelete" /\ e.res = "NotFound") =>
                     IF last THEN GoesOnAfter(e)
                     ELSE eng.log[p + 1].op = "GetForDelete" /\ eng.log[p + 1].i = e.i + 1
               /\ (e.op = "GetForDelete" /\ e.res = "nil") =>
                     IF last THEN eng.pc = "deldel" /\ eng.i = e.i
                     ELSE eng.log[p + 1].op = "Delete" /\ eng.log[p + 1].i = e.i
               /\ e.op = "Delete" =>
                     /\ p > 1
                     /\ eng.log[p - 1].op = "GetForDelete"
                     /\ eng.log[p - 1].phase = "obsolete"
                     /\ eng.log[p - 1].i = e.i
                     /\ eng.log[p - 1].res # "NotFound"
               /\ (e.op = "Delete" /\ e.res \in {"nil", "NotFound"}) =>
                     IF last THEN GoesOnAfter(e)
                     ELSE eng.log[p + 1].op = "GetForDelete" /\ eng.log[p + 1].i = e.i + 1
               /\ (e.op = "Delete" /\ e.res \notin {"nil", "NotFound"}) =>
                     last /\ eng.pc = "idle" /\ eng.result = e.res
    /\ (Returned /\ eng.result \in {"nil", "AlreadyExists"}) =>
          \A i \in DOMAIN Obsolete(eng) : ~cache[Key(Obsolete(eng)[i])].ok

\* A call returned nil although the delete of its obsolete Deployment, which
\* the handler had created and cached in an earlier call, answered
\* NotFound: another actor had deleted it after the fetch.
C22_Witness ==
    /\ Returned
    /\ eng.result = "nil"
    /\ \E p \in Entries :
          /\ p > 1
          /\ eng.log[p].op = "Delete" /\ eng.log[p].res = "NotFound"
          /\ eng.log[p].phase = "obsolete"
          /\ eng.log[p - 1].op = "GetForDelete" /\ eng.log[p - 1].res = "nil"
          /\ eng.log[p - 1].cached
          /\ ~cache[eng.log[p].key].ok

----------------------------------------------------------------------------
RemoveCalls ==
    {"RemoveDeployments", "RemoveDaemonsets", "RemoveStatefulSets", "RemoveCronJobs"}

\* C23: a Remove* call is made only for an obsolete Deployment, DaemonSet,
\* StatefulSet or CronJob that the handler found present and deleted; an
\* obsolete object that was already absent produces no Remove* call.
C23_RemoveOnlyForDeleted ==
    \A q \in DOMAIN eng.slog :
       LET c == eng.slog[q] IN
       c[1] \in RemoveCalls =>
          /\ \E i \in DOMAIN Obsolete(eng) :
                /\ Key(Obsolete(eng)[i]) = c[2]
                /\ RemoveCall(Obsolete(eng)[i].kind) = c[1]
          /\ \E p \in Entries :
                /\ eng.log[p].op = "Delete" /\ eng.log[p].res = "nil"
                /\ eng.log[p].phase = "obsolete" /\ eng.log[p].key = c[2]

----------------------------------------------------------------------------
\* The positions of the status log that hold ReadyToMonitor.
ReadyToMonitorAt == {q \in DOMAIN eng.slog : eng.slog[q][1] = "ReadyToMonitor"}

\* C24: for a ready component and a status manager, ReadyToMonitor is called
\* once, as the last report of the call, after every desired object was
\* processed and every obsolete object was looked up or deleted, exactly
\* when the call ends without a fatal error, a return of the recorded
\* AlreadyExists included; a call that is aborted, or still running, has
\* not called it.
C24_ReadyToMonitor ==
    (eng.comp # 0 /\ eng.ready /\ eng.hasStatus) =>
       /\ Cardinality(ReadyToMonitorAt) <= 1
       /\ ReadyToMonitorAt # {} <=>
             (eng.pc = "idle" /\ eng.result \in {"nil", "AlreadyExists"})
       /\ ReadyToMonitorAt # {} =>
             /\ ReadyToMonitorAt = {Len(eng.slog)}
             /\ \A p \in Entries : ~FatalEntry(eng.log[p])
             /\ \A i \in DOMAIN Desired(eng) :
                   \E p \in Entries :
                      /\ eng.log[p].phase = "desired" /\ eng.log[p].i = i
                      /\ eng.log[p].op = "Get"
             /\ \A i \in DOMAIN Obsolete(eng) :
                   \E p \in Entries :
                      /\ eng.log[p].phase = "obsolete" /\ eng.log[p].i = i
                      /\ eng.log[p].op = "GetForDelete"

\* A call that recorded AlreadyExists reported its Deployment, removed the
\* obsolete one and then called ReadyToMonitor.
C24_Witness ==
    /\ eng.comp # 0 /\ eng.ready /\ eng.hasStatus
    /\ eng.pc = "idle"
    /\ eng.result = "AlreadyExists"
    /\ Len(eng.slog) >= 2
    /\ eng.slog[Len(eng.slog)][1] = "ReadyToMonitor"
    /\ \E p \in Entries : eng.log[p].op = "Delete" /\ eng.log[p].res = "nil"

----------------------------------------------------------------------------
\* The identities of the desired objects of one kind, in list order.
DesiredKeysOf(kind) ==
    LET sel == SelectSeq(Desired(eng), LAMBDA o : o.kind = kind)
    IN [j \in DOMAIN sel |-> Key(sel[j])]

AddCallOf ==
    {<<"Deployment", "AddDeployments">>, <<"DaemonSet", "AddDaemonsets">>,
     <<"StatefulSet", "AddStatefulSets">>, <<"CronJob", "AddCronJobs">>}

\* The call is past its objsToCreate loop: it works on the obsolete objects
\* or has returned without a fatal error.
PastDesired ==
    /\ eng.comp # 0 /\ eng.ready
    /\ \/ eng.phase = "obsolete"
       \/ eng.pc = "idle" /\ eng.result \in {"nil", "AlreadyExists"}

\* C25: once a call with a status manager is past its desired objects, each
\* of AddDeployments, AddDaemonsets, AddStatefulSets, AddCronJobs has been
\* called once with the identities of the desired objects of its kind in
\* list order (and not called when there are none), before any lookup or
\* delete of an obsolete object and before any other report, whatever
\* happened to the objects; no other identity is reported; a call still in
\* its desired objects, or aborted there, has reported nothing.
C25_WorkloadTracking ==
    (eng.comp # 0 /\ eng.ready /\ eng.hasStatus) =>
       IF PastDesired
       THEN LET adds == {q \in DOMAIN eng.slog :
                           \E a \in AddCallOf : eng.slog[q][1] = a[2]}
            IN /\ \A a \in AddCallOf :
                     LET keys == DesiredKeysOf(a[1])
                         at == {q \in DOMAIN eng.slog : eng.slog[q][1] = a[2]}
                     IN IF keys = <<>> THEN at = {}
                        ELSE /\ Cardinality(at) = 1
                             /\ \A q \in at : eng.slog[q] = <<a[2], keys>>
               /\ adds = 1 .. Cardinality(adds)
          ELSE eng.slog = <<>>

\* A call in create-only mode that returned AlreadyExists: it created the
\* first Deployment, found the second on the cluster, skipped the
\* StatefulSet because its namespace had begun to terminate, reported the
\* four kinds in the order of the code, the two Deployments in list order,
\* and then deleted the obsolete DaemonSet and reported that.
C25_Witness ==
    /\ eng.comp # 0 /\ eng.ready /\ eng.hasStatus /\ eng.createOnly
    /\ PastDesired
    /\ eng.pc = "idle" /\ eng.result = "AlreadyExists"
    /\ Len(eng.slog) = 6
    /\ eng.slog[1] = <<"AddDaemonsets", <<Key(DSET)>>>>
    /\ eng.slog[2] = <<"AddDeployments", <<Key(DEPR), Key(DEP)>>>>
    /\ eng.slog[3] = <<"AddStatefulSets", <<Key(STS)>>>>
    /\ eng.slog[4] = <<"AddCronJobs", <<Key(CJ)>>>>
    /\ eng.slog[5] = <<"RemoveDaemonsets", Key(DSO)>>
    /\ \E p \in Entries :
          /\ eng.log[p].op = "Create" /\ eng.log[p].res = "nil"
          /\ eng.log[p].key = Key(DEPR)
    /\ \E p \in Entries :
          /\ eng.log[p].op = "Get" /\ eng.log[p].res = "nil"
          /\ eng.log[p].key = Key(DEP)
    /\ \E p \in Entries :
          /\ eng.log[p].op = "GetNamespace" /\ eng.log[p].res = "Terminating"
          /\ eng.log[p].key = Key(STS)
    /\ \E p \in Entries :
          /\ eng.log[p].phase = "obsolete"
          /\ eng.log[p].op = "Delete" /\ eng.log[p].res = "nil"

----------------------------------------------------------------------------
\* The owner reference step has run on the object, alone or first in the
\* whole pipeline.
OwnerStepDone == pipe # NilObj /\ pipe.applied \cap {"owner", "pipeline"} # {}

\* An owner is configured, the object is no UISettings, and it is not the
\* case that the owner is namespaced while the object is cluster-scoped.
OwnerApplies ==
    /\ pipe.cr # NoCR
    /\ pipe.input.kind # "UISettings"
    /\ ~(pipe.cr.ns # "" /\ pipe.input.ns = "")

\* C26: after the owner reference step the object that goes on to be
\* written carries a controlling reference to the handler's owner when an
\* owner is configured, the object is no UISettings, the owner is not
\* namespaced with the object cluster-scoped, and the object has no
\* multiple-owners label; with the label it carries a non-controlling
\* reference instead; in every other case the step adds nothing and does
\* not fail.  An object for which the step fails is not written.
C26_OwnerLinkage ==
    OwnerStepDone =>
       LET marked == HasKey(pipe.input.labels, MultipleOwnersLabel)
           ctl == [name |-> pipe.cr.name, controller |-> TRUE]
           ref == [name |-> pipe.cr.name, controller |-> FALSE]
       IN IF ~OwnerApplies
          THEN pipe.err = "nil" /\ pipe.obj.owners = pipe.input.owners
          ELSE IF pipe.err # "nil"
          THEN pipe.obj.owners = pipe.input.owners
          ELSE /\ ~marked => (ctl \in pipe.obj.owners /\ ref \notin pipe.obj.owners)
               /\ marked => (ref \in pipe.obj.owners /\ ctl \notin pipe.obj.owners)
               /\ \A r \in pipe.obj.owners \ pipe.input.owners :
                     r = IF marked THEN ref ELSE ctl

\* The step ran for a namespaced owner on an object with the
\* multiple-owners label and added a non-controlling reference.
C26_Witness ==
    /\ OwnerStepDone
    /\ OwnerApplies
    /\ pipe.err = "nil"
    /\ pipe.cr.ns # ""
    /\ HasKey(pipe.input.labels, MultipleOwnersLabel)
    /\ [name |-> pipe.cr.name, controller |-> FALSE] \in pipe.obj.owners
    /\ pipe.input.owners = {}

----------------------------------------------------------------------------
OwnerNames(refs) == {r.name : r \in refs}

\* C27: no object passed to Create or Update carries the multiple-owners
\* label, whether it is created because it was absent, updated, or created
\* again after a delete; and when the desired object carried the label, the
\* owner references of the object passed to Update, or created again, are
\* those of the desired object together with every current reference to an
\* owner the desired object does not name, one reference for each owner.
C27_MultipleOwnersMarker ==
    \A p \in Entries :
       LET e == eng.log[p] IN
       e.op \in {"Create", "Update"} =>
          /\ ~HasKey(e.payload.labels, MultipleOwnersLabel)
          /\ \A q \in Entries :
                LET g == eng.log[q] IN
                (/\ q < p
                 /\ g.op = "Get" /\ g.res = "nil"
                 /\ g.i = e.i /\ g.attempt = e.attempt /\ g.phase = e.phase
                 /\ HasKey(g.obj.labels, MultipleOwnersLabel)) =>
                   /\ g.obj.owners \subseteq e.payload.owners
                   /\ OwnerNames(e.payload.owners) =
                         OwnerNames(g.obj.owners) \cup OwnerNames(g.cur.owners)
                   /\ \A r \in e.payload.owners :
                         r \in g.obj.owners \/ r \in g.cur.owners
                   /\ \A r, s \in e.payload.owners : r.name = s.name => r = s

\* An object with the label, which another owner also referred to, was
\* found, and updated or deleted and created again (op): the payload kept
\* the other owner's reference next to the handler's, without the label.
MarkedObjectWritten(op) ==
    \E p \in Entries :
       LET e == eng.log[p] IN
       /\ p > 1
       /\ e.op = op /\ e.res = "nil"
       /\ \E q \in 1 .. (p - 1) :
             LET g == eng.log[q] IN
             /\ g.op = "Get" /\ g.res = "nil" /\ g.i = e.i /\ g.attempt = e.attempt
             /\ g.key = e.key
             /\ HasKey(g.obj.labels, MultipleOwnersLabel)
             /\ \E r \in g.cur.owners : r.name = "other"
       /\ \E r \in e.payload.owners : r.name = "other"
       /\ \E r \in e.payload.owners : r.name = "installation" /\ ~r.controller

\* The Service with the label was deleted and created again with both
\* references.
C27_Witness == MarkedObjectWritten("Create")

----------------------------------------------------------------------------
\* The union of two maps, the desired value winning on a key in both.
UnionDesiredWins(cur, des) ==
    {kv \in cur : \A d \in des : d[1] # kv[1]} \cup des

\* The Get of the round of entry p that found the object.
FoundBefore(p) ==
    {q \in 1 .. (p - 1) :
        /\ eng.log[q].op = "Get" /\ eng.log[q].res = "nil"
        /\ eng.log[q].phase = "desired"
        /\ eng.log[q].i = eng.log[p].i /\ eng.log[q].attempt = eng.log[p].attempt}

\* Entry p submits an object on update or recreate.
Submits(p) ==
    /\ eng.log[p].op \in {"Create", "Update"}
    /\ eng.log[p].phase = "desired"
    /\ FoundBefore(p) # {}

\* C28 as stated: for every kind, the labels and the annotations of the
\* object submitted on update or recreate are the union of the current and
\* the desired object's, the desired value winning on a common key.
C28_MetadataMergeEveryKind ==
    \A p \in Entries :
       Submits(p) =>
          \A q \in FoundBefore(p) :
             LET s == eng.log[p].payload
                 g == eng.log[q]
             IN /\ s.labels = UnionDesiredWins(g.cur.labels, g.obj.labels)
                /\ s.annots = UnionDesiredWins(g.cur.annots, g.obj.annots)

\* C28 amended: the labels submitted on update or recreate are the union of
\* the current and the desired object's, the desired value winning on a
\* common key, less the multiple-owners label; the annotations submitted
\* are that union of the annotations, except that those of an Elasticsearch
\* or Kibana are the current object's.  An Elasticsearch, Kibana or
\* UISettings is covered by this when its spec differs from the current
\* one.  In every case each label of the live object but the
\* multiple-owners label, and each of its annotations, is kept.
C28_MetadataMerge ==
    \A p \in Entries :
       Submits(p) =>
          \A q \in FoundBefore(p) :
             LET s == eng.log[p].payload
                 g == eng.log[q]
                 labels == Remove(UnionDesiredWins(g.cur.labels, g.obj.labels),
                                  MultipleOwnersLabel)
                 annots == IF g.obj.kind \in {"Elasticsearch", "Kibana"}
                           THEN g.cur.annots
                           ELSE UnionDesiredWins(g.cur.annots, g.obj.annots)
                 unchanged == /\ g.obj.kind \in {"Elasticsearch", "Kibana", "UISettings"}
                              /\ SpecOf(g.cur) = SpecOf(g.obj)
             IN /\ ~unchanged => (s.labels = labels /\ s.annots = annots)
                /\ Keys(g.cur.labels) \ {MultipleOwnersLabel} \subseteq Keys(s.labels)
                /\ Keys(g.cur.annots) \subseteq Keys(s.annots)

\* In one call a role binding on which another actor had put the
\* multiple-owners label was created again without it, a Kibana whose spec
\* had changed was updated with the annotations of the live object, the
\* desired annotation left out, and a ConfigMap that carries the label in
\* its desired form was updated without it, the label of another actor kept.
C28_Witness ==
    \E p1, p2, p3 \in Entries :
       /\ Submits(p1) /\ Submits(p2) /\ Submits(p3)
       /\ eng.log[p1].op = "Create" /\ eng.log[p1].res = "nil"
       /\ \E q \in FoundBefore(p1) :
             /\ eng.log[q].obj.kind = "RoleBinding"
             /\ HasKey(eng.log[q].cur.labels, MultipleOwnersLabel)
             /\ ~HasKey(eng.log[q].obj.labels, MultipleOwnersLabel)
             /\ ~HasKey(eng.log[p1].payload.labels, MultipleOwnersLabel)
       /\ eng.log[p2].op = "Update" /\ eng.log[p2].res = "nil"
       /\ \E q \in FoundBefore(p2) :
             LET s == eng.log[p2].payload
                 g == eng.log[q]
             IN /\ g.obj.kind = "Kibana"
                /\ SpecOf(g.cur) # SpecOf(g.obj)
                /\ g.obj.annots # {}
                /\ s.annots = g.cur.annots
                /\ s.annots # UnionDesiredWins(g.cur.annots, g.obj.annots)
                /\ s.labels = UnionDesiredWins(g.cur.labels, g.obj.labels)
                /\ HasKey(s.labels, "ext")
       /\ eng.log[p3].op = "Update" /\ eng.log[p3].res = "nil"
       /\ \E q \in FoundBefore(p3) :
             /\ eng.log[q].obj.kind = "ConfigMap"
             /\ HasKey(eng.log[q].obj.labels, MultipleOwnersLabel)
             /\ ~HasKey(eng.log[p3].payload.labels, MultipleOwnersLabel)
             /\ HasKey(eng.log[p3].payload.labels, "ext")

----------------------------------------------------------------------------
\* The API calls that follow entry q in its round of createOrUpdateObject.
RoundAfter(q) ==
    {p \in Entries :
        /\ p > q
        /\ eng.log[p].phase = eng.log[q].phase
        /\ eng.log[p].i = eng.log[q].i
        /\ eng.log[p].attempt = eng.log[q].attempt}

\* The handler is still in the round of entry q.
StillIn(q) ==
    /\ eng.pc # "idle"
    /\ eng.phase = eng.log[q].phase
    /\ eng.i = eng.log[q].i
    /\ eng.attempt = eng.log[q].attempt

\* Entry q is the Get of a desired object of the kind that found it on the
\* cluster, outside create-only mode and not marked to be ignored.
FoundKind(q, kind) ==
    LET g == eng.log[q] IN
    /\ g.op = "Get" /\ g.res = "nil" /\ g.phase = "desired"
    /\ g.obj.kind = kind
    /\ ~g.createOnly
    /\ ~IgnoreObject(g.cur)

\* The round of entry q deletes the object and creates it again: the
\* lookup for the delete comes next, no Update is sent, and what is created
\* carries no resource version.
Recreates(q) ==
    /\ IF q = Len(eng.log) THEN StillIn(q) /\ eng.pc = "delget"
       ELSE eng.log[q + 1].op = "GetForDelete" /\ (q + 1) \in RoundAfter(q)
    /\ \A p \in RoundAfter(q) :
          /\ eng.log[p].op # "Update"
          /\ eng.log[p].op = "Create" =>
                (eng.log[p].payload.rv = 0 /\ eng.log[p].payload.uid = 0)

\* The round of entry q leaves the object in place: nothing but an Update
\* follows in it.
InPlace(q) ==
    /\ \A p \in RoundAfter(q) : eng.log[p].op = "Update"
    /\ (q = Len(eng.log) /\ StillIn(q)) => eng.pc = "update"

\* C29: for a desired Service found on the cluster: when the desired
\* cluster IP is not "None" the Service is updated in place and the update
\* carries the current cluster IP; when the desired cluster IP is "None"
\* and the current one is not, the Service is deleted and created again;
\* when both are "None" it is updated in place.
C29_ServiceRule ==
    \A q \in Entries :
       FoundKind(q, "Service") =>
          LET g == eng.log[q] IN
          IF g.obj.clusterIP # "None"
          THEN /\ InPlace(q)
               /\ \A p \in RoundAfter(q) :
                     eng.log[p].payload.clusterIP = g.cur.clusterIP
          ELSE IF g.cur.clusterIP # "None"
          THEN /\ Recreates(q)
               /\ \A p \in RoundAfter(q) :
                     eng.log[p].op = "Create" => eng.log[p].payload.clusterIP = "None"
          ELSE /\ InPlace(q)
               /\ \A p \in RoundAfter(q) : eng.log[p].payload.clusterIP = "None"

\* In one call a Service kept its assigned cluster IP through an update and
\* a headless Service that had been given an IP was deleted and created
\* again without one.
C29_Witness ==
    \E q1, q2 \in Entries :
       /\ FoundKind(q1, "Service") /\ FoundKind(q2, "Service")
       /\ eng.log[q1].obj.clusterIP = "" /\ eng.log[q1].cur.clusterIP = "10.0.0.7"
       /\ \E p \in RoundAfter(q1) :
             /\ eng.log[p].op = "Update" /\ eng.log[p].res = "nil"
             /\ eng.log[p].payload.clusterIP = "10.0.0.7"
       /\ eng.log[q2].obj.clusterIP = "None" /\ eng.log[q2].cur.clusterIP = "10.0.0.8"
       /\ \E p \in RoundAfter(q2) :
             /\ eng.log[p].op = "Create" /\ eng.log[p].res = "nil"
             /\ cluster[eng.log[p].key].clusterIP = "None"

----------------------------------------------------------------------------
\* The desired type differs from the current one, and it is not the case
\* that the desired type is unset while the current one is Opaque.
TypeChanged(g) ==
    /\ g.obj.stype # g.cur.stype
    /\ ~(g.obj.stype = "" /\ g.cur.stype = "Opaque")

\* C30: a desired Secret found on the cluster is deleted and created again
\* exactly when its type is changed in that sense; in every other case it
\* is updated in place and no delete is sent for it.
C30_SecretRule ==
    \A q \in Entries :
       FoundKind(q, "Secret") =>
          IF TypeChanged(eng.log[q]) THEN Recreates(q) ELSE InPlace(q)

\* In one call a Secret of no desired type that is Opaque on the cluster
\* was updated in place, and a Secret whose type differs was deleted and
\* created again.
C30_Witness ==
    \E q1, q2 \in Entries :
       /\ FoundKind(q1, "Secret") /\ FoundKind(q2, "Secret")
       /\ eng.log[q1].obj.stype = "" /\ eng.log[q1].cur.stype = "Opaque"
       /\ \E p \in RoundAfter(q1) : eng.log[p].op = "Update" /\ eng.log[p].res = "nil"
       /\ TypeChanged(eng.log[q2])
       /\ \E p \in RoundAfter(q2) : eng.log[p].op = "Delete" /\ eng.log[p].res = "nil"
       /\ \E p \in RoundAfter(q2) :
             /\ eng.log[p].op = "Create" /\ eng.log[p].res = "nil"
             /\ cluster[eng.log[p].key].stype = eng.log[q2].obj.stype

----------------------------------------------------------------------------
\* What the Job rule compares: the number of containers, their images by
\* position, and the annotations of the pod template.
JobUnchanged(g) ==
    /\ Len(g.cur.containers) = Len(g.obj.containers)
    /\ \A i \in 1..Len(g.obj.containers) :
          g.cur.containers[i].image = g.obj.containers[i].image
    /\ g.cur.tplAnnots = g.obj.tplAnnots

\* The round of entry q ended right after it, with no further API call.
Untouched(q) ==
    /\ RoundAfter(q) = {}
    /\ ~(q = Len(eng.log) /\ StillIn(q))

\* C31: no Update is ever sent for a Job.  A desired Job found on the
\* cluster is left untouched when its container count, its images and its
\* pod-template annotations equal the current ones; otherwise it is deleted
\* and then created from the merged object, with resource version, UID and
\* creation timestamp cleared.
C31_JobRule ==
    /\ \A p \in Entries : eng.log[p].op = "Update" => eng.log[p].key[1] # "Job"
    /\ \A q \in Entries :
          FoundKind(q, "Job") =>
             LET g == eng.log[q] IN
             IF JobUnchanged(g) THEN Untouched(q)
             ELSE /\ Recreates(q)
                  /\ \A p \in RoundAfter(q) :
                        eng.log[p].op = "Create" =>
                           /\ \E d \in RoundAfter(q) :
                                 d < p /\ eng.log[d].op \in {"GetForDelete", "Delete"}
                           /\ eng.log[p].payload =
                                 [g.obj EXCEPT
                                    !.rv = 0, !.uid = 0, !.ct = 0, !.gen = g.cur.gen,
                                    !.labels = MergeMaps(g.cur.labels, @),
                                    !.annots = MergeMaps(g.cur.annots, @)]

----------------------------------------------------------------------------
PolicyKinds == {"NetworkPolicy", "Tier"}

\* The round of entry q goes on to an Update and to nothing else.
UpdatesNext(q) ==
    /\ InPlace(q)
    /\ IF q = Len(eng.log) THEN StillIn(q) /\ eng.pc = "update"
       ELSE (q + 1) \in RoundAfter(q)

\* C32: for a desired NetworkPolicy or Tier found on the cluster, no write
\* is sent when the desired Spec equals the current one and an Update is
\* sent otherwise; the resource is never deleted or created again.
C32_PolicyRule ==
    /\ \A q \in Entries :
          (\E kind \in PolicyKinds : FoundKind(q, kind)) =>
             IF SpecOf(eng.log[q].cur) = SpecOf(eng.log[q].obj)
             THEN Untouched(q)
             ELSE UpdatesNext(q)
    /\ \A p \in Entries :
          eng.log[p].key[1] \in PolicyKinds =>
             /\ eng.log[p].op \notin {"GetForDelete", "Delete"}
             /\ eng.log[p].op = "Create" =>
                   \E q \in Entries :
                      /\ q < p /\ eng.log[q].op = "Get" /\ eng.log[q].res = "NotFound"
                      /\ p \in RoundAfter(q)

\* In one call a Tier whose Spec is the desired one was left without a
\* write although its labels differ, and a NetworkPolicy with another Spec
\* was updated.
C32_Witness ==
    /\ eng.pc = "idle" /\ eng.result = "nil"
    /\ \E q1, q2 \in Entries :
          /\ FoundKind(q1, "Tier") /\ FoundKind(q2, "NetworkPolicy")
          /\ SpecOf(eng.log[q1].cur) = SpecOf(eng.log[q1].obj)
          /\ eng.log[q1].cur.labels # eng.log[q1].obj.labels
          /\ SpecOf(eng.log[q2].cur) # SpecOf(eng.log[q2].obj)
          /\ \E p \in RoundAfter(q2) :
                /\ eng.log[p].op = "Update" /\ eng.log[p].res = "nil"
                /\ SpecOf(cluster[eng.log[p].key]) = SpecOf(eng.log[q2].obj)

----------------------------------------------------------------------------
\* C33: for a desired UISettings found on the cluster, every payload keeps
\* the current owner references, no Update is sent when the desired Spec
\* equals the current one, and an Update is sent otherwise.
C33_UISettingsRule ==
    \A q \in Entries :
       FoundKind(q, "UISettings") =>
          /\ \A p \in RoundAfter(q) :
                eng.log[p].op \in {"Update", "Create"} =>
                   eng.log[p].payload.owners = eng.log[q].cur.owners
          /\ IF SpecOf(eng.log[q].cur) = SpecOf(eng.log[q].obj)
             THEN Untouched(q)
             ELSE UpdatesNext(q)

----------------------------------------------------------------------------
StandardLabels == {"k8s-app", "app.kubernetes.io/name"}

\* The step that sets the standard labels has run on the object.
LabelStepDone ==
    /\ pipe # NilObj
    /\ pipe.err = "nil"
    /\ pipe.applied \cap {"labels", "pipeline"} # {}

\* The label of the pod template is the resource name, unless the template
\* came with a value for it.
TemplateLabelSet(k) ==
    /\ HasKey(pipe.obj.tplLabels, k)
    /\ ValueOf(pipe.obj.tplLabels, k) =
          IF HasKey(pipe.input.tplLabels, k) /\ ValueOf(pipe.input.tplLabels, k) # ""
          THEN ValueOf(pipe.input.tplLabels, k)
          ELSE pipe.input.name

\* The selector is the one that came with the object, or k8s-app = name.
SelectorSet ==
    /\ pipe.obj.hasSelector
    /\ pipe.obj.selector =
          IF pipe.input.hasSelector THEN pipe.input.selector
          ELSE {<<"k8s-app", pipe.input.name>>}

\* C34: after the mutation pipeline every Deployment and every DaemonSet
\* carries the labels k8s-app and app.kubernetes.io/name on its own
\* metadata and on its pod template, and has a label selector.
C34_StandardLabels ==
    (LabelStepDone /\ pipe.input.kind \in {"Deployment", "DaemonSet"}) =>
       /\ \A k \in StandardLabels :
             /\ HasKey(pipe.obj.labels, k)
             /\ ValueOf(pipe.obj.labels, k) = pipe.input.name
             /\ TemplateLabelSet(k)
       /\ SelectorSet

----------------------------------------------------------------------------
\* The API calls of the invocation for object i of the list, in the attempt.
CallsFor(phase, i, attempt) ==
    {p \in Entries :
        /\ eng.log[p].phase = phase
        /\ eng.log[p].i = i
        /\ eng.log[p].attempt = attempt}

\* No object is attempted more than twice, no attempt and no delete makes
\* more than its share of API calls, and so the calls of the invocation
\* are bounded by the sizes of the two lists. One run of
\* createOrUpdateObject makes at most 4 API calls (the lookup of the
\* Installation or of the Namespace, the Get, and either one write or the
\* lookup and Delete of c.delete followed by a Create); c.delete makes at
\* most 2 for an obsolete object.
BoundedCalls ==
    /\ eng.attempt <= 2
    /\ \A p \in Entries :
          /\ eng.log[p].attempt <= 2
          /\ eng.log[p].phase = "desired" =>
                /\ eng.log[p].i \in 1..Len(Desired(eng))
                /\ Cardinality(CallsFor("desired", eng.log[p].i, eng.log[p].attempt))
                      <= 4
          /\ eng.log[p].phase = "obsolete" =>
                /\ eng.log[p].i \in 1..Len(Obsolete(eng))
                /\ eng.log[p].attempt = 1
                /\ Cardinality(CallsFor("obsolete", eng.log[p].i, 1))
                      <= 2
    /\ Len(eng.log) <= 2 * 4 * Len(Desired(eng))
                          + 2 * Len(Obsolete(eng))

\* C35: when every API call returns, every call of CreateOrUpdateOrDelete
\* returns, conflicts or not; each desired object is attempted at most
\* twice and the number of API calls of one invocation is bounded by the
\* sizes of the desired and the obsolete list.
C35_Termination ==
    /\ [](eng.pc # "idle" => BoundedCalls)
    /\ (eng.pc # "idle") ~> (eng.pc = "idle")

\* A call returned after both attempts for one object ended in a conflict,
\* within the bound.
C35_Witness ==
    /\ eng.pc = "idle" /\ eng.result = "Conflict"
    /\ \E p, q \in Entries :
          /\ p < q
          /\ eng.log[p].i = eng.log[q].i
          /\ eng.log[p].res = "Conflict" /\ eng.log[p].attempt = 1
          /\ eng.log[q].res = "Conflict" /\ eng.log[q].attempt = 2
          /\ q = Len(eng.log)

----------------------------------------------------------------------------
\* The caller's object i as createOrUpdateObject has it when it reads the
\* cluster: owner reference set and pod specification mutated, nothing
\* else.
Prepared(i) ==
    mutateSpec(setOwner(eng.cr, ObjAt(Desired(eng), i)).obj, eng.osType)

\* The Get of the round a write belongs to.
GetOf(p) ==
    {q \in Entries :
        /\ q < p
        /\ p \in RoundAfter(q)
        /\ eng.log[q].op = "Get"}

\* C36: every attempt, the retry after a conflict included, starts from
\* the caller's object: what it looks up is the caller's object with the
\* mutation steps applied once and no resource version on it; every write
\* of an attempt is made from that object and from what the Get of the same
\* attempt read, so nothing of a failed attempt reaches the retry.
C36_RetryFromOriginal ==
    \A p \in Entries :
       eng.log[p].phase = "desired" =>
          LET e == eng.log[p] IN
          /\ e.op = "Get" =>
                /\ e.obj.rv = 0
                /\ e.obj = IF e.obj.kind \in {"Deployment", "DaemonSet"}
                           THEN injectTLSCiphers(Prepared(e.i), install)
                           ELSE Prepared(e.i)
          /\ e.op \in {"Update", "Create"} =>
                /\ Cardinality(GetOf(p)) = 1
                /\ \A q \in GetOf(p) :
                      LET g == eng.log[q] IN
                      e.payload =
                         IF g.res # "nil" THEN CreatePayload(g.obj)
                         ELSE IF e.op = "Update" THEN mergeState(g.obj, g.cur)
                         ELSE resetMetadataForCreate(mergeState(g.obj, g.cur))

\* An update of an object with the multiple-owners label met a conflict and
\* the retry, made from what it read again, went through with another
\* resource version than the failed attempt carried.
C36_Witness ==
    \E p, q \in Entries :
       /\ p < q
       /\ eng.log[p].i = eng.log[q].i
       /\ eng.log[p].op = "Update" /\ eng.log[p].res = "Conflict"
       /\ eng.log[p].attempt = 1
       /\ checkIfMultipleOwnersLabel(ObjAt(Desired(eng), eng.log[p].i))
       /\ eng.log[q].op = "Update" /\ eng.log[q].res = "nil"
       /\ eng.log[q].attempt = 2
       /\ eng.log[q].payload.rv # eng.log[p].payload.rv

----------------------------------------------------------------------------
\* Entry q is the Get of a desired object that found it on the cluster.
FoundAt(q) ==
    /\ eng.log[q].op = "Get"
    /\ eng.log[q].res = "nil"
    /\ eng.log[q].phase = "desired"

\* The round of entry q did not end the call with an error.
NoErrorFrom(q) ==
    (q = Len(eng.log) /\ eng.pc = "idle") =>
       eng.result = IF eng.aeErr THEN "AlreadyExists" ELSE "nil"

\* C37: outside create-only mode an object found with the ignore annotation
\* gets no update, delete or create and causes no error; in create-only
\* mode an object that is found gets no API call either and AlreadyExists
\* is recorded, with the annotation or without it.
C37_IgnoredObjects ==
    \A q \in Entries :
       FoundAt(q) =>
          LET g == eng.log[q] IN
          IF g.createOnly
          THEN Untouched(q) /\ eng.aeErr /\ NoErrorFrom(q)
          ELSE IgnoreObject(g.cur) =>
                  /\ Untouched(q)
                  /\ NoErrorFrom(q)
                  /\ eng.aeErr => \E p \in Entries : eng.log[p].res = "AlreadyExists"

\* A call outside create-only mode returned nil after it found an ignored
\* Secret of another type than the desired one and left it alone.
C37_Witness ==
    /\ eng.pc = "idle" /\ eng.result = "nil"
    /\ \E q \in Entries :
          /\ FoundAt(q)
          /\ ~eng.log[q].createOnly
          /\ IgnoreObject(eng.log[q].cur)
          /\ TypeChanged(eng.log[q])
          /\ cluster[eng.log[q].key] = eng.log[q].cur

\* ------------------------------------------------------------------------
\* The monitor controller: its two ReadyFlags, the goroutines Add starts
\* with them, and ReconcileMonitor.Reconcile.
\* ------------------------------------------------------------------------

\* Reconcile calls started in one behaviour.
MaxReconciles == 1

\* The two flags Add creates and hands to the reconciler.
FlagNames == {"prometheusReady", "tierWatchReady"}

\* &utils.ReadyFlag{}: the zero value, with the RWMutex free.
NewReadyFlag == [isReady |-> FALSE, writer |-> FALSE, readers |-> 0]

\* sync.RWMutex.Lock returns once no reader and no writer holds the lock.
CanLock(f) == ~f.writer /\ f.readers = 0

\* RLock that never waits for a writer.
CanRLockUnguarded(f) == TRUE

\* sync.RWMutex.RLock returns once no writer holds the lock.
CanRLock(f) == ~f.writer

\* What a read of isReady yields: the stored value, or anything at all when
\* a writer is inside its critical section at the same time (a data race).
ReadOutcomes(f) ==
    IF f.writer THEN {"ready", "notReady", "torn"}
    ELSE IF f.isReady THEN {"ready"} ELSE {"notReady"}

\* The branch `if !flag.IsReady()` takes for an observed value.
Branches(v) ==
    CASE v = "ready" -> {TRUE}
      [] v = "notReady" -> {FALSE}
      [] OTHER -> BOOLEAN

\* One entry of the trace of a Reconcile call.
Event(ev, arg, failed) == [ev |-> ev, arg |-> arg, err |-> failed]

\* Reconcile before its first call.
ReconcileIdle ==
    [pc |-> "idle", n |-> 0, reading |-> "none", after |-> FALSE,
     seen |-> "none", ready |-> FALSE,
     statusRequest |-> FALSE, external |-> FALSE, deferred |-> FALSE,
     createInOperatorNamespace |-> FALSE,
     include |-> FALSE, comps |-> <<>>, idx |-> 0,
     log |-> <<>>, result |-> "none"]

\* The state Add leaves: both flags not ready, the watch goroutines started,
\* the reconciler waiting for its first request.
MonitorInit ==
    [flags |-> [n \in FlagNames |-> NewReadyFlag],
     watch |-> [n \in FlagNames |-> [pc |-> "idle", returned |-> FALSE]],
     tier |-> FALSE,
     degraded |-> FALSE,
     rec |-> ReconcileIdle]

\* The operator starts on a cluster that holds the Deployment of the Monitor
\* component from an earlier run and none of the other objects: those of
\* the four components and the Alertmanager configuration Secret.
InitMonitor ==
    /\ cluster = [k \in IdsOf({11, 12, 13, 14}) \cup {Key(SECU)} |->
                    IF k = Key(DEP) THEN Stored(DEP) ELSE Absent]
    /\ wseq = [k \in Ids |-> IF cluster[k] = Absent THEN 0 ELSE cluster[k].rv]
    /\ nsTerm = [n \in Namespaces |-> FALSE]
    /\ install = "TLS_AES_128_GCM_SHA256"
    /\ cache = [k \in Ids |-> NoEntry]
    /\ eng = Idle
    /\ calls = 0
    /\ env = 0
    /\ hs = <<>>
    /\ pipe = NilObj
    /\ mon = MonitorInit

handlerVars == <<cluster, wseq, nsTerm, install, cache, eng, calls, hs, pipe>>

\* ReadyFlag.MarkAsReady, r.mu.Lock(): a watch goroutine enters, for the
\* first time or again.
MarkAsReadyLock(n) ==
    /\ mon.watch[n].pc = "idle"
    /\ CanLock(mon.flags[n])
    /\ mon' = [mon EXCEPT !.flags[n].writer = TRUE, !.watch[n].pc = "locked"]
    /\ UNCHANGED <<handlerVars, env>>

\* ReadyFlag.MarkAsReady, r.isReady = true
MarkAsReadyWrite(n) ==
    /\ mon.watch[n].pc = "locked"
    /\ mon' = [mon EXCEPT !.flags[n].isReady = TRUE, !.watch[n].pc = "written"]
    /\ UNCHANGED <<handlerVars, env>>

\* ReadyFlag.MarkAsReady, the deferred r.mu.Unlock() and the return.
MarkAsReadyUnlock(n) ==
    /\ mon.watch[n].pc = "written"
    /\ mon' = [mon EXCEPT !.flags[n].writer = FALSE,
                          !.watch[n] = [pc |-> "idle", returned |-> TRUE]]
    /\ UNCHANGED <<handlerVars, env>>

\* The reconciler returns: result and error of Reconcile. The deferred
\* r.status.SetMetaData runs on every return after it was registered.
ReconcileReturn(r, evs, res) ==
    [r EXCEPT !.pc = "idle",
              !.log = r.log \o evs
                         \o (IF r.deferred THEN <<Event("SetMetaData", "", FALSE)>>
                             ELSE <<>>),
              !.result = res,
              !.reading = "none"]

\* SetDegraded followed by a return.
Degrade(r, reason, res) ==
    ReconcileReturn(r, <<Event("SetDegraded", reason, FALSE)>>, res)

\* Whether the trace leaves the status degraded.
DegradedAfter(was, evs) ==
    LET last == {i \in 1..Len(evs) :
                    /\ evs[i].ev \in {"SetDegraded", "ClearDegraded"}
                    /\ \A j \in (i+1)..Len(evs) :
                          evs[j].ev \notin {"SetDegraded", "ClearDegraded"}}
    IN  IF last = {} THEN was
        ELSE \E i \in last : evs[i].ev = "SetDegraded"

\* The reconciler moves to r; the status manager follows the new events.
Advance(r) ==
    LET added == SubSeq(r.log, Len(mon.rec.log) + 1, Len(r.log)) IN
    [mon EXCEPT !.rec = r,
                !.degraded = DegradedAfter(mon.degraded,
                                IF Len(r.log) >= Len(mon.rec.log) THEN added ELSE r.log)]

\* A request reaches Reconcile; it is the one for the TigeraStatus of the
\* monitor (request.Name == ResourceName, no namespace) or another one.
ReconcileStart(statusRequest) ==
    /\ mon.rec.pc = "idle"
    /\ mon.rec.n < MaxReconciles
    /\ mon' = [mon EXCEPT !.rec = [ReconcileIdle EXCEPT
                                      !.pc = "getMonitor",
                                      !.statusRequest = statusRequest,
                                      !.n = mon.rec.n + 1]]
    /\ UNCHANGED <<handlerVars, env>>

\* The number of certificates Reconcile adds to the trusted bundle.
TrustedCertificates == 5

\* The blocking calls of Reconcile outside the two gates, the Tier lookup
\* and the component loop, by the place Reconcile is at.
StageNames ==
    {"getMonitor", "getTigeraStatus", "updateConditions", "patchDefaults",
     "getExternalNamespace", "getInstallation", "getPullSecrets",
     "createCA", "serverKeyPair", "clientKeyPair", "getCertificate",
     "getAuthentication", "getKeyValidatorConfig",
     "getSecretOperatorNamespace", "getSecretPrometheusNamespace",
     "getKubeControllerMetricsPort",
     "getFelixConfiguration", "applyImageSet"}

\* The Alertmanager configuration Secret of the operator namespace: the
\* object the Passthrough component carries.
AlertmanagerKey == Key(SECU)

\* How Reconcile leaves a call that failed: the reasons it may give to
\* SetDegraded, "" where it returns the error without SetDegraded.
Failures(pc) ==
    CASE pc = "getMonitor" -> {"ResourceReadError"}
      [] pc = "getTigeraStatus" -> {""}
      [] pc = "updateConditions" -> {""}
      [] pc = "patchDefaults" -> {"ResourceUpdateError"}
      [] pc = "getExternalNamespace" -> {"ResourceReadError"}
      [] pc = "getInstallation" -> {"ResourceNotFound", "ResourceReadError"}
      [] pc = "getPullSecrets" -> {"ResourceReadError"}
      [] pc = "createCA" -> {"ResourceCreateError"}
      [] pc = "serverKeyPair" -> {"ResourceCreateError"}
      [] pc = "clientKeyPair" -> {"ResourceCreateError"}
      [] pc = "getCertificate" -> {"ResourceReadError"}
      [] pc = "getAuthentication" -> {"ResourceReadError"}
      [] pc = "getKeyValidatorConfig" -> {"ResourceUpdateError"}
      [] pc = "getSecretOperatorNamespace" -> {"ResourceReadError"}
      [] pc = "getSecretPrometheusNamespace" -> {"ResourceReadError"}
      [] pc = "getKubeControllerMetricsPort" -> {"ResourceReadError"}
      [] pc = "getFelixConfiguration" -> {"ResourceReadError"}
      [] pc = "applyImageSet" -> {"ResourceUpdateError"}

\* The components Reconcile renders, in the order it appends them.
MonitorComponents(createInOperatorNamespace, includeV3NetworkPolicy) ==
    <<"Monitor", "CertificateManagement">>
       \o (IF createInOperatorNamespace THEN <<"Passthrough">> ELSE <<>>)
       \o (IF includeV3NetworkPolicy THEN <<"MonitorPolicy">> ELSE <<>>)

\* Where Reconcile goes on after the call it is at did not stop it: the
\* states it may be in next, one for each answer the call can give.
Proceed(r) ==
    CASE r.pc = "getMonitor" ->
           \* not found: OnCRNotFound and return; found: OnCRFound, the
           \* deferred SetMetaData, then the status conditions if asked for
           {ReconcileReturn(r, <<Event("OnCRNotFound", "", FALSE)>>, "nil")}
           \cup {[r EXCEPT !.pc = IF r.statusRequest THEN "getTigeraStatus"
                                  ELSE "patchDefaults",
                           !.external = e, !.deferred = TRUE,
                           !.log = Append(@, Event("OnCRFound", "", FALSE))]
                    : e \in BOOLEAN}
      [] r.pc = "getTigeraStatus" -> {[r EXCEPT !.pc = "updateConditions"]}
      [] r.pc = "updateConditions" ->
           {[r EXCEPT !.pc = "patchDefaults",
                      !.log = Append(@, Event("StatusUpdate", "Conditions", FALSE))]}
      [] r.pc = "patchDefaults" ->
           {[r EXCEPT !.pc = IF r.external THEN "getExternalNamespace"
                             ELSE "getInstallation"]}
      [] r.pc = "getExternalNamespace" -> {[r EXCEPT !.pc = "getInstallation"]}
      [] r.pc = "getInstallation" -> {[r EXCEPT !.pc = "getPullSecrets"]}
      [] r.pc = "getPullSecrets" -> {[r EXCEPT !.pc = "prometheusReady"]}
      [] r.pc = "createCA" ->
           \* with an external Prometheus and no certificate management the
           \* server key pair is a CSR key pair, made without an API call
           \* (the value IsReady gave and ExternalPrometheus are not read
           \* again)
           LET q == [r EXCEPT !.seen = "none", !.after = FALSE, !.external = FALSE]
           IN  {[q EXCEPT !.pc = "serverKeyPair"]}
               \cup (IF r.external THEN {[q EXCEPT !.pc = "clientKeyPair"]} ELSE {})
      [] r.pc = "serverKeyPair" -> {[r EXCEPT !.pc = "clientKeyPair"]}
      [] r.pc = "clientKeyPair" -> {[r EXCEPT !.pc = "getCertificate", !.idx = 1]}
      [] r.pc = "getCertificate" ->
           \* the certificate is added, or skipped on a key-usage error
           {IF r.idx < TrustedCertificates
            THEN [r EXCEPT !.idx = @ + 1]
            ELSE [r EXCEPT !.pc = "getAuthentication", !.idx = 0,
                           !.log = Append(@, Event("AddToStatusManager", "", FALSE))]}
      [] r.pc = "getAuthentication" ->
           \* none or not ready: on to the gate; ready: its key validator
           {[r EXCEPT !.pc = "tierWatchReady"],
            [r EXCEPT !.pc = "getKeyValidatorConfig"]}
      [] r.pc = "getKeyValidatorConfig" -> {[r EXCEPT !.pc = "tierWatchReady"]}
      [] r.pc = "getSecretOperatorNamespace" ->
           \* readAlertmanagerConfigSecret: the Secret of the operator
           \* namespace is used as it is when it is there
           {IF cluster[AlertmanagerKey] # Absent
            THEN [r EXCEPT !.pc = "getKubeControllerMetricsPort",
                           !.createInOperatorNamespace = FALSE]
            ELSE [r EXCEPT !.pc = "getSecretPrometheusNamespace"]}
      [] r.pc = "getSecretPrometheusNamespace" ->
           \* none there, or one equal to the default: the Secret is left
           \* to the handler; one the user changed: it is copied by Create
           {[r EXCEPT !.pc = "getKubeControllerMetricsPort",
                      !.createInOperatorNamespace = TRUE],
            [r EXCEPT !.pc = "createSecret"]}
      [] r.pc = "getKubeControllerMetricsPort" ->
           {[r EXCEPT !.pc = "getFelixConfiguration"]}
      [] r.pc = "getFelixConfiguration" ->
           {[r EXCEPT !.pc = "applyImageSet",
                      !.comps = MonitorComponents(r.createInOperatorNamespace,
                                                  r.include)]}
      [] r.pc = "applyImageSet" -> {[r EXCEPT !.pc = "loop", !.idx = 1]}

\* One blocking call of Reconcile returns: Reconcile goes on, or degrades
\* the status and returns the error.
ReconcileStage ==
    /\ mon.rec.pc \in StageNames
    /\ \/ \E r \in Proceed(mon.rec) : mon' = Advance(r)
       \/ \E reason \in Failures(mon.rec.pc) :
             mon' = Advance(IF reason = ""
                            THEN ReconcileReturn(mon.rec, <<>>, "err")
                            ELSE Degrade(mon.rec, reason, "err"))
    /\ UNCHANGED <<handlerVars, env>>

\* ReadyFlag.IsReady, r.mu.RLock(): the reconciler enters.
IsReadyRLock ==
    /\ mon.rec.pc \in FlagNames
    /\ mon.rec.reading = "none"
    /\ CanRLock(mon.flags[mon.rec.pc])
    /\ mon' = [mon EXCEPT !.flags[mon.rec.pc].readers = @ + 1,
                          !.rec.reading = mon.rec.pc,
                          !.rec.after = mon.watch[mon.rec.pc].returned]
    /\ UNCHANGED <<handlerVars, env>>

\* Reconcile after prometheusReady.IsReady() returned.
AfterPrometheusReady(r, ready) ==
    IF ready THEN [r EXCEPT !.pc = "createCA", !.reading = "none"]
    ELSE Degrade(r, "ResourceNotReady", "err")

\* The Tier-watch gate lets Reconcile through whatever the flag says.
AfterTierWatchReadyUngated(r, ready) ==
    [r EXCEPT !.pc = "tier", !.reading = "none"]

\* Reconcile after tierWatchReady.IsReady() returned.
AfterTierWatchReady(r, ready) ==
    IF ready THEN [r EXCEPT !.pc = "tier", !.reading = "none"]
    ELSE Degrade(r, "ResourceNotReady", "requeue")

\* ReadyFlag.IsReady, return r.isReady with the deferred r.mu.RUnlock():
\* the reconciler leaves the lock with the value it goes on with.
IsReadyReturn ==
    /\ mon.rec.reading \in FlagNames
    /\ \E v \in ReadOutcomes(mon.flags[mon.rec.reading]) :
          \E ready \in Branches(v) :
             mon' = [mon EXCEPT !.flags[mon.rec.reading].readers = @ - 1,
                                !.rec.reading = "returned",
                                !.rec.seen = v,
                                !.rec.ready = ready]
    /\ UNCHANGED <<handlerVars, env>>

\* Reconcile, `if !flag.IsReady()`: the branch on the value IsReady
\* returned, taken after the lock was left.
IfNotReady ==
    /\ mon.rec.reading = "returned"
    /\ LET r == IF mon.rec.pc = "prometheusReady"
                THEN AfterPrometheusReady(mon.rec, mon.rec.ready)
                ELSE AfterTierWatchReady(mon.rec, mon.rec.ready)
       IN  mon' = Advance([r EXCEPT !.ready = FALSE])
    /\ UNCHANGED <<handlerVars, env>>

\* The lookup of the allow-tigera Tier: found, NotFound (tolerated) or
\* another error.
TierLookup(failed) ==
    /\ mon.rec.pc = "tier"
    /\ mon' = Advance(IF failed THEN Degrade(mon.rec, "ResourceReadError", "err")
                      ELSE [mon.rec EXCEPT
                              !.pc = "getSecretOperatorNamespace",
                              !.seen = "none", !.after = FALSE,
                              !.include = mon.tier,
                              !.log = Append(@, Event("GetTier",
                                         IF mon.tier THEN "found" ELSE "notFound",
                                         FALSE))])
    /\ UNCHANGED <<handlerVars, env>>

\* readAlertmanagerConfigSecret, r.client.Create(ctx, s): the copy of the
\* Secret the user changed is written to the operator namespace; an error
\* comes back to Reconcile, which degrades the status and returns it.
CreateAlertmanagerSecret(failed) ==
    /\ mon.rec.pc = "createSecret"
    /\ LET k == AlertmanagerKey
           s == [SECU EXCEPT !.data = 2]
           err == IF failed THEN "Err" ELSE createError(cluster[k], s)
       IN  IF err = "nil"
           THEN /\ cluster' = [cluster EXCEPT ![k] = created(s, wseq[k])]
                /\ wseq' = [wseq EXCEPT ![k] = @ + 1]
                /\ mon' = Advance([mon.rec EXCEPT
                                      !.pc = "getKubeControllerMetricsPort",
                                      !.createInOperatorNamespace = FALSE])
           ELSE /\ mon' = Advance(Degrade(mon.rec, "ResourceReadError", "err"))
                /\ UNCHANGED <<cluster, wseq>>
    /\ UNCHANGED <<nsTerm, install, cache, eng, calls, env, hs, pipe>>

\* The rendered component that stands behind each name.
MonitorComponent(name) ==
    CASE name = "Monitor" -> 11
      [] name = "CertificateManagement" -> 12
      [] name = "Passthrough" -> 13
      [] name = "MonitorPolicy" -> 14

\* The component loop calls hdler.CreateOrUpdateOrDelete(ctx, component,
\* r.status) on the next component; the handler runs from here.
HandleComponentCall(ready) ==
    /\ mon.rec.pc = "loop"
    /\ mon.rec.idx <= Len(mon.rec.comps)
    /\ eng.pc = "idle"
    /\ eng' = Called(MonitorComponent(mon.rec.comps[mon.rec.idx]), ready, TRUE)
    /\ calls' = calls + 1
    /\ mon' = [mon EXCEPT !.rec.pc = "handling"]
    /\ UNCHANGED <<cluster, wseq, nsTerm, install, cache, env, hs, pipe>>

\* CreateOrUpdateOrDelete has returned: its error degrades the status and
\* is returned, otherwise the loop goes on with the next component. What
\* the call left in the handler is not read again: the next call starts
\* anew, and the handler is made afresh by every Reconcile.
HandleComponentReturn ==
    /\ mon.rec.pc = "handling"
    /\ eng.pc = "idle"
    /\ LET failed == eng.result # "nil"
           call == Event("CreateOrUpdateOrDelete", mon.rec.comps[mon.rec.idx], failed)
           r == [mon.rec EXCEPT !.log = Append(@, call)]
       IN  mon' = Advance(
              IF failed THEN Degrade(r, "ResourceUpdateError", "err")
              ELSE [r EXCEPT !.idx = @ + 1,
                             !.pc = IF mon.rec.idx = Len(mon.rec.comps)
                                    THEN "finish" ELSE "loop"])
    /\ eng' = Idle
    /\ UNCHANGED <<cluster, wseq, nsTerm, install, cache, calls, env, hs, pipe>>

\* Reconcile after the loop: ReadyToMonitor, ClearDegraded and IsAvailable.
FinishReconcile(available) ==
    /\ mon.rec.pc = "finish"
    /\ LET r == [mon.rec EXCEPT !.log = @ \o <<Event("ReadyToMonitor", "", FALSE),
                                               Event("ClearDegraded", "", FALSE)>>]
       IN  mon' = Advance(IF available THEN [r EXCEPT !.pc = "updateStatus"]
                          ELSE ReconcileReturn(r, <<>>, "requeue"))
    /\ UNCHANGED <<handlerVars, env>>

\* The update of the Monitor status to Ready returns.
UpdateStatus(statusUpdated) ==
    /\ mon.rec.pc = "updateStatus"
    /\ LET u == [mon.rec EXCEPT
                    !.log = Append(@, Event("StatusUpdate", "Ready", ~statusUpdated))]
       IN  mon' = Advance(IF statusUpdated THEN ReconcileReturn(u, <<>>, "nil")
                          ELSE Degrade(u, "ResourceUpdateError", "err"))
    /\ UNCHANGED <<handlerVars, env>>

\* The allow-tigera Tier is created or deleted by someone else.
TierChange ==
    /\ env < MaxEnv
    /\ env' = env + 1
    /\ mon' = [mon EXCEPT !.tier = ~@]
    /\ UNCHANGED handlerVars

NextMonitor ==
    \/ \E n \in FlagNames : MarkAsReadyLock(n)
    \/ \E n \in FlagNames : MarkAsReadyWrite(n)
    \/ \E n \in FlagNames : MarkAsReadyUnlock(n)
    \/ \E statusRequest \in BOOLEAN : ReconcileStart(statusRequest)
    \/ ReconcileStage
    \/ IsReadyRLock
    \/ IsReadyReturn
    \/ IfNotReady
    \/ \E failed \in BOOLEAN : TierLookup(failed)
    \/ \E failed \in BOOLEAN : CreateAlertmanagerSecret(failed)
    \/ \E ready \in BOOLEAN : HandleComponentCall(ready)
    \/ GetInstallation
    \/ Get
    \/ GetNamespace
    \/ Create
    \/ Update
    \/ HandleComponentReturn
    \/ \E available \in BOOLEAN : FinishReconcile(available)
    \/ \E statusUpdated \in BOOLEAN : UpdateStatus(statusUpdated)
    \/ TierChange

SpecMonitor == InitMonitor /\ [][NextMonitor]_vars

\* The flag is as Add created it: no MarkAsReady call has written to it.
NeverMarked(n) ==
    /\ ~mon.watch[n].returned
    /\ mon.watch[n].pc \in {"idle", "locked"}

\* C38: a ReadyFlag is not ready until a MarkAsReady call writes to it; an
\* IsReady call that starts after a MarkAsReady call on the flag has
\* returned yields true; a flag that is ready stays ready; a writer is never
\* inside the lock together with a reader, and every IsReady call yields
\* ready or not ready, never anything else.
C38_ReadyFlag ==
    /\ [](\A n \in FlagNames :
            /\ NeverMarked(n) => ~mon.flags[n].isReady
            /\ mon.watch[n].returned => mon.flags[n].isReady
            /\ ~(mon.flags[n].writer /\ mon.flags[n].readers > 0))
    /\ [](mon.rec.seen # "none" =>
            /\ mon.rec.seen \in {"ready", "notReady"}
            /\ mon.rec.after => mon.rec.seen = "ready")
    /\ [][\A n \in FlagNames : mon.flags[n].isReady => mon.flags[n].isReady']_vars

\* An IsReady call on the Tier-watch flag that started after MarkAsReady
\* had returned yielded ready, while the watch goroutine of the Prometheus
\* flag is inside the lock once more, the flag being ready already.
C38_Witness ==
    /\ mon.rec.pc = "tier"
    /\ mon.rec.after /\ mon.rec.seen = "ready"
    /\ mon.watch["tierWatchReady"].returned
    /\ mon.watch["prometheusReady"].returned
    /\ mon.watch["prometheusReady"].pc = "locked"
    /\ mon.flags["prometheusReady"].isReady

\* The places of the trace of the current Reconcile call.
Steps == 1..Len(mon.rec.log)

\* The CreateOrUpdateOrDelete calls of the current Reconcile call, in order.
Handled ==
    SelectSeq(mon.rec.log, LAMBDA e : e.ev = "CreateOrUpdateOrDelete")

\* The components these calls were made for.
HandledNames == [i \in 1..Len(Handled) |-> Handled[i].arg]

IsPrefixOf(s, u) ==
    /\ Len(s) <= Len(u)
    /\ \A i \in 1..Len(s) : s[i] = u[i]

\* The orders in which Reconcile may handle components: the network-policy
\* component, when there is one, comes last.
ComponentOrders ==
    {<<"Monitor", "CertificateManagement">>,
     <<"Monitor", "CertificateManagement", "Passthrough">>,
     <<"Monitor", "CertificateManagement", "MonitorPolicy">>,
     <<"Monitor", "CertificateManagement", "Passthrough", "MonitorPolicy">>}

\* The lookup of the current Reconcile call found the allow-tigera Tier.
TierFound ==
    \E i \in Steps : mon.rec.log[i].ev = "GetTier" /\ mon.rec.log[i].arg = "found"

\* The current Reconcile call has cleared the degraded status or sent the
\* Ready status update.
Cleared(i) ==
    \/ mon.rec.log[i].ev = "ClearDegraded"
    \/ mon.rec.log[i].ev = "StatusUpdate" /\ mon.rec.log[i].arg = "Ready"

\* C39: Reconcile calls CreateOrUpdateOrDelete only with both ready flags
\* set; it handles the components in order, the network-policy component
\* last and only if its lookup found the allow-tigera Tier; a component
\* error is followed by SetDegraded and the return of the error (only the
\* deferred SetMetaData comes after it), with no further component
\* handled; ClearDegraded and the Ready status update come
\* only after every component of the list was handled without error.
C39_ReconcileGating ==
    /\ Handled # <<>> => \A n \in FlagNames : mon.flags[n].isReady
    /\ \E order \in ComponentOrders : IsPrefixOf(HandledNames, order)
    /\ (\E i \in 1..Len(Handled) : Handled[i].arg = "MonitorPolicy") => TierFound
    /\ \A i \in Steps :
          (mon.rec.log[i].ev = "CreateOrUpdateOrDelete" /\ mon.rec.log[i].err) =>
             /\ Len(mon.rec.log) > i
             /\ mon.rec.log[i + 1].ev = "SetDegraded"
             /\ \A j \in Steps : j > i + 1 => mon.rec.log[j].ev = "SetMetaData"
             /\ mon.rec.pc = "idle"
             /\ mon.rec.result = "err"
             /\ mon.degraded
    /\ \A i \in Steps :
          Cleared(i) =>
             /\ HandledNames \in ComponentOrders
             /\ TierFound => HandledNames[Len(HandledNames)] = "MonitorPolicy"
             /\ \A j \in Steps :
                   mon.rec.log[j].ev = "CreateOrUpdateOrDelete" =>
                      j < i /\ ~mon.rec.log[j].err

\* A Reconcile call handled all four components, the network policies
\* last, and returned after the Ready status update; the handler has
\* written their objects to the cluster and the status is not degraded.
C39_Witness ==
    /\ mon.rec.pc = "idle"
    /\ mon.rec.result = "nil"
    /\ HandledNames = <<"Monitor", "CertificateManagement", "Passthrough", "MonitorPolicy">>
    /\ \E i \in Steps :
          /\ mon.rec.log[i].ev = "StatusUpdate"
          /\ mon.rec.log[i].arg = "Ready"
          /\ ~mon.rec.log[i].err
    /\ cluster[Key(NP)] # Absent
    /\ cluster[AlertmanagerKey] # Absent
    /\ ~mon.degraded

====
